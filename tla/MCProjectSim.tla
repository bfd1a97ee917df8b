---------------------------- MODULE MCProjectSim ----------------------------
(* Projects for TLC: figures for which every division of the code is exact. *)
EXTENDS ProjectViews

MCRates == {0, 1}
MCDiscount == [r \in MCRates |-> [m \in 0..MaxMonths |-> IF r = 0 THEN 1 ELSE 40 - m]]

Plain ==
  [n |-> 1, capexMode |-> "detailed", override |-> 0, charger |-> 1200000, rest |-> 1200000,
   horizon |-> 24, life |-> 2, asCash |-> FALSE,
   split |-> "all", inst |-> 1, chargerInst |-> 2, otherInst |-> 6, interest |-> 0,
   tariff |-> 5000, fee |-> 0, kwh |-> 100, sessions |-> 0, occ0 |-> 0, occ12 |-> 60, growth |-> 0,
   energy |-> 1000, demand |-> 5000, opexMode |-> "total", opexOverride |-> 10000, items |-> 30000,
   gateway |-> 5, unpaid |-> 5, shared |-> 0, sharedBase |-> "revenue",
   tax |-> 0, taxBase |-> "profit", rate |-> 1]

Costs == {Plain, [Plain EXCEPT !.capexMode = "total", !.override = 600000],
          [Plain EXCEPT !.capexMode = "total"],
          [Plain EXCEPT !.opexMode = "detailed", !.demand = 0]}
Payments(q) == {q, [q EXCEPT !.inst = 24], [q EXCEPT !.inst = 2, !.interest = 1, !.rate = 0],
                [q EXCEPT !.inst = 0], [q EXCEPT !.interest = 1],
                [q EXCEPT !.split = "separate", !.override = 45000, !.charger = 30000,
                          !.rest = 30000],
                [q EXCEPT !.split = "separate", !.capexMode = "total", !.override = 15000,
                          !.charger = 30000, !.chargerInst = 24, !.otherInst = 1]}
Demand(q) == {q, [q EXCEPT !.occ0 = 60, !.occ12 = 60], [q EXCEPT !.occ0 = 60, !.occ12 = 0],
              [q EXCEPT !.occ12 = 12, !.growth = 100],
              [q EXCEPT !.occ12 = 36, !.growth = 100, !.fee = 5000, !.sessions = 10]}
Taxes(q) == {q, [q EXCEPT !.life = 1, !.asCash = TRUE, !.tax = 20, !.shared = 20],
             [q EXCEPT !.life = 1, !.tax = 40, !.shared = 20, !.sharedBase = "profit"],
             [q EXCEPT !.tax = 10, !.taxBase = "revenue", !.shared = 20, !.sharedBase = "ebitda"]}

MCProjects ==
  UNION {UNION {Payments(q) : q \in Costs}, Taxes(Plain)}
  \cup UNION {UNION {Taxes(q) : q \in Demand(c)} : c \in {[Plain EXCEPT !.inst = 24], Plain}}
  \cup Demand([Plain EXCEPT !.capexMode = "total", !.override = 600000, !.inst = 24])

=============================================================================
