\* Every project is computed to its horizon; the form then changes to any other.
CONSTANTS
  MaxMonths = 24
  NoMonth = NoMonth
  Projects <- MCProjects
  Rates <- MCRates
  Discount <- MCDiscount
SPECIFICATION SimSpec
INVARIANTS
  SimTypeOK
  PaybackOrdered
  InsightsAgree
  PaysOnce
  PaybackLasts
  CopiesAgree
  OfferIsCharged
  CostsDelay
  DREReconciles
