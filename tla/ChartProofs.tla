----------------------------- MODULE ChartProofs -----------------------------
(***************************************************************************)
(* Proofs about the charts of a turn: what rows a visu step starts with,   *)
(* when it is skipped, and that a chart the user asked for is drawn.       *)
(* They rest on one observation: the passes of the supervisor finish visu  *)
(* steps only, so the sql steps before a step, and the rows they left, are *)
(* the same before and after them.                                         *)
(***************************************************************************)
EXTENDS TurnProofs

\* The first n steps of two plans have the same sql steps.
SameSql(p, q, n) ==
    \A j \in 1..n : /\ (p[j].route = "sql") = (q[j].route = "sql")
                    /\ p[j].route = "sql" => p[j] = q[j]

\* What a step can be charted from depends on the sql steps before it alone.
LEMMA SameSqlSameRows ==
    ASSUME NEW p \in Seq(PlanItem), NEW q \in Seq(PlanItem), NEW i \in Nat \ {0},
           i <= Len(p) + 1, i <= Len(q) + 1, SameSql(p, q, i - 1)
    PROVE  /\ RowsUpstreamIndex(p, i) = RowsUpstreamIndex(q, i)
           /\ UpstreamSql(p, i) \cap Pending(p) = UpstreamSql(q, i) \cap Pending(q)
<1>1. UpstreamSql(p, i) = UpstreamSql(q, i)
      /\ \A j \in UpstreamSql(p, i) : p[j] = q[j]
  BY DEF SameSql, UpstreamSql
<1>2. UpstreamSql(p, i) \subseteq DOMAIN p /\ UpstreamSql(q, i) \subseteq DOMAIN q
  BY DEF UpstreamSql
<1>3. {j \in UpstreamSql(p, i) : p[j].status = "done" /\ p[j].rows # 0}
      = {j \in UpstreamSql(q, i) : q[j].status = "done" /\ q[j].rows # 0}
  BY <1>1
<1>. QED
  BY <1>1, <1>2, <1>3 DEF RowsUpstreamIndex, Pending

\* An index of upstream rows is one of a finished sql step that has rows.
LEMMA UpstreamRows ==
    ASSUME NEW p \in Seq(PlanItem), NEW i \in Nat \ {0}, i <= Len(p) + 1,
           RowsUpstreamIndex(p, i) # 0
    PROVE  LET source == RowsUpstreamIndex(p, i)
           IN  /\ source \in UpstreamSql(p, i) /\ source \in DOMAIN p
               /\ p[source].rows \in Nat \ {0}
<1>. DEFINE source  == RowsUpstreamIndex(p, i)
            sources == {j \in UpstreamSql(p, i) : p[j].status = "done" /\ p[j].rows # 0}
<1>1. sources # {} /\ source = Greatest(sources)
  BY DEF RowsUpstreamIndex
<1>2. i - 1 \in Nat /\ sources \in SUBSET (1..(i - 1))
  BY DEF UpstreamSql
<1>3. source \in sources
  <2>. HIDE DEF sources, source
  <2>. QED  BY <1>1, <1>2, GreatestExists
<1>4. source \in UpstreamSql(p, i) /\ p[source].rows # 0
  BY <1>3
<1>5. source \in DOMAIN p
  BY <1>2, <1>3
<1>. HIDE DEF source
<1>6. p[source].rows \in Nat
  BY <1>5, ItemType
<1>. QED
  BY <1>4, <1>5, <1>6 DEF source

\* A step that is reported as skipped had no rows to draw and none to come.
SkipsStand(p) ==
    \A i \in DOMAIN p : p[i].status = "skipped" =>
        /\ RowsUpstreamIndex(p, i) = 0
        /\ UpstreamSql(p, i) \cap Pending(p) = {}

-----------------------------------------------------------------------------
(* The three backstops.                                                    *)

\* A chart is only ever added, pending, behind the plan.
LEMMA InsertKeepsSql ==
    ASSUME NEW p \in Seq(PlanItem), NEW wants \in BOOLEAN
    PROVE  LET a == MaybeInsertVisu(p, wants)
           IN  /\ a \in Seq(PlanItem) /\ Len(p) <= Len(a)
               /\ \A i \in DOMAIN p : a[i] = p[i]
               /\ SkipsStand(p) => SkipsStand(a)
               /\ wants /\ RowsUpstreamIndex(a, Len(a) + 1) # 0 => HasVisu(a)
<1>. DEFINE a    == MaybeInsertVisu(p, wants)
            item == NewItem("visu", Canned, "database")
<1>1. CASE a = p
  BY <1>1 DEF MaybeInsertVisu
<1>2. CASE a # p
  <2>1. a = Append(p, item)
    BY <1>2 DEF MaybeInsertVisu
  <2>2. item \in PlanItem /\ item.route = "visu" /\ item.status = "pending"
    BY NewItemType DEF PlanRoutes, Specialists, AnyTask, DataSources, NewItem
  <2>. HIDE DEF a, item
  <2>3. /\ a \in Seq(PlanItem) /\ Len(a) = Len(p) + 1 /\ a[Len(p) + 1] = item
        /\ \A i \in DOMAIN p : a[i] = p[i]
        /\ DOMAIN p = 1..Len(p) /\ DOMAIN a = 1..(Len(p) + 1)
    BY <2>1, <2>2
  <2>4. ASSUME SkipsStand(p), NEW i \in DOMAIN a, a[i].status = "skipped"
        PROVE  /\ RowsUpstreamIndex(a, i) = 0
               /\ UpstreamSql(a, i) \cap Pending(a) = {}
    <3>1. i \in DOMAIN p /\ p[i].status = "skipped" /\ i \in Nat \ {0}
      BY <2>2, <2>3, <2>4
    <3>2. SameSql(p, a, i - 1)
      BY <2>3, <3>1 DEF SameSql
    <3>3. i <= Len(p) + 1 /\ i <= Len(a) + 1
      BY <2>3, <3>1
    <3>. QED  BY <2>3, <2>4, <3>1, <3>2, <3>3, SameSqlSameRows DEF SkipsStand
  <2>5. HasVisu(a)
    BY <2>2, <2>3 DEF HasVisu, HasRoute
  <2>. QED  BY <2>3, <2>4, <2>5 DEF SkipsStand, a
<1>. QED  BY <1>1, <1>2

\* A pass that finishes pending visu steps only, and reports as skipped only
\* those that are blocked.
Passes(p, q, turn) ==
    /\ Settles(p, q)
    /\ \A i \in DOMAIN p :
          \/ q[i] = p[i]
          \/ /\ p[i].route = "visu" /\ p[i].status = "pending"
             /\ q[i].status \in {"failed", "skipped"} /\ q[i].text = turn
             /\ q[i].status = "skipped" => IsBlocked(p, i)

\* Such a pass leaves the sql steps, and with them the rows of every step.
LEMMA PassKeepsSql ==
    ASSUME NEW p \in Seq(PlanItem), NEW q, NEW turn, Passes(p, q, turn)
    PROVE  /\ q \in Seq(PlanItem) /\ Len(q) = Len(p)
           /\ \A i \in 1..(Len(p) + 1) :
                 /\ RowsUpstreamIndex(q, i) = RowsUpstreamIndex(p, i)
                 /\ UpstreamSql(q, i) \cap Pending(q) = UpstreamSql(p, i) \cap Pending(p)
           /\ \A i \in Pending(q) : i \in Pending(p) /\ q[i] = p[i]
           /\ SkipsStand(p) => SkipsStand(q)
           /\ HasVisu(p) => HasVisu(q)
<1>1. /\ q \in Seq(PlanItem) /\ Len(q) = Len(p)
      /\ DOMAIN p = 1..Len(p) /\ DOMAIN q = 1..Len(p)
      /\ \A i \in DOMAIN p : q[i].route = p[i].route
  BY DEF Passes, Settles
<1>2. ASSUME NEW i \in 1..(Len(p) + 1)
      PROVE  /\ RowsUpstreamIndex(q, i) = RowsUpstreamIndex(p, i)
             /\ UpstreamSql(q, i) \cap Pending(q) = UpstreamSql(p, i) \cap Pending(p)
  <2>1. SameSql(p, q, i - 1)
    BY <1>1 DEF Passes, SameSql
  <2>. QED  BY <1>1, <2>1, SameSqlSameRows
<1>3. \A i \in Pending(q) : i \in Pending(p) /\ q[i] = p[i]
  BY <1>1 DEF Passes, Pending
<1>4. ASSUME SkipsStand(p), NEW i \in DOMAIN q, q[i].status = "skipped"
      PROVE  /\ RowsUpstreamIndex(q, i) = 0
             /\ UpstreamSql(q, i) \cap Pending(q) = {}
  <2>1. i \in DOMAIN p /\ i \in 1..(Len(p) + 1)
    BY <1>1
  <2>2. p[i].status = "skipped" \/ IsBlocked(p, i)
    BY <1>4, <2>1 DEF Passes
  <2>3. RowsUpstreamIndex(p, i) = 0 /\ UpstreamSql(p, i) \cap Pending(p) = {}
    BY <1>4, <2>1, <2>2 DEF SkipsStand, IsBlocked
  <2>. QED  BY <1>2, <2>1, <2>3
<1>5. HasVisu(p) => HasVisu(q)
  BY <1>1 DEF HasVisu, HasRoute
<1>. QED
  BY <1>1, <1>2, <1>3, <1>4, <1>5 DEF SkipsStand

\* A chart that survives the pass over the blocked steps is not blocked.
LEMMA SkipBlockedPasses ==
    ASSUME NEW p \in Seq(PlanItem), NEW turn \in Nat
    PROVE  LET q == SkipBlockedSteps(p, turn)
           IN  Passes(p, q, turn) /\ \A i \in Pending(q) : ~IsBlocked(p, i)
<1>. DEFINE q == SkipBlockedSteps(p, turn)
<1>1. /\ DOMAIN q = DOMAIN p
      /\ \A i \in DOMAIN p : ~IsBlocked(p, i) => q[i] = p[i]
      /\ \A i \in DOMAIN p : IsBlocked(p, i) => q[i] = Finish(p[i], "skipped", turn)
  BY DEF SkipBlockedSteps
<1>2. Settles(p, q)
  BY SkipBlockedSettles
<1>. HIDE DEF q
<1>3. \A i \in DOMAIN p : p[i] \in PlanItem
  OBVIOUS
<1>4. \A i \in DOMAIN p : IsBlocked(p, i) => /\ p[i].route = "visu" /\ p[i].status = "pending"
                                            /\ q[i].status = "skipped" /\ q[i].text = turn
  <2>1. \A item \in PlanItem : /\ Finish(item, "skipped", turn).status = "skipped"
                               /\ Finish(item, "skipped", turn).text = turn
    BY DEF Finish, PlanItem
  <2>2. \A i \in DOMAIN p : IsBlocked(p, i) => p[i].route = "visu" /\ p[i].status = "pending"
    BY DEF IsBlocked
  <2>. QED  BY <1>1, <1>3, <2>1, <2>2
<1>5. Passes(p, q, turn)
  BY <1>1, <1>2, <1>4 DEF Passes
<1>6. \A i \in Pending(q) : ~IsBlocked(p, i)
  BY <1>1, <1>4 DEF Pending
<1>. QED  BY <1>5, <1>6 DEF q

\* With the budget spent, a chart that survives the pass has rows to draw.
LEMMA SkipUnbudgetedPasses ==
    ASSUME NEW p \in Seq(PlanItem), NEW s \in BOOLEAN, NEW turn \in Nat
    PROVE  LET q == SkipUnbudgetedVisu(p, s, turn)
           IN  /\ Passes(p, q, turn)
               /\ \A i \in Pending(q) : s /\ q[i].route = "visu" =>
                     p[i].src # "inline" /\ RowsUpstreamIndex(p, i) # 0
<1>. DEFINE q == SkipUnbudgetedVisu(p, s, turn)
            Fails(i) == /\ s
                        /\ p[i].route = "visu" /\ p[i].status = "pending"
                        /\ p[i].src = "inline" \/ RowsUpstreamIndex(p, i) = 0
<1>1. /\ DOMAIN q = DOMAIN p
      /\ \A i \in DOMAIN p : ~Fails(i) => q[i] = p[i]
      /\ \A i \in DOMAIN p : Fails(i) => q[i] = Finish(p[i], "failed", turn)
  BY DEF SkipUnbudgetedVisu
<1>2. Settles(p, q)
  BY SkipUnbudgetedSettles
<1>. HIDE DEF q
<1>3. \A i \in DOMAIN p : p[i] \in PlanItem
  OBVIOUS
<1>4. \A i \in DOMAIN p : Fails(i) => /\ p[i].route = "visu" /\ p[i].status = "pending"
                                     /\ q[i].status = "failed" /\ q[i].text = turn
  BY <1>1, <1>3 DEF Finish, PlanItem
<1>5. Passes(p, q, turn)
  <2>. HIDE DEF Fails
  <2>. QED  BY <1>1, <1>2, <1>4 DEF Passes
<1>6. \A i \in Pending(q) : i \in DOMAIN p /\ ~Fails(i) /\ q[i] = p[i]
  <2>. HIDE DEF Fails
  <2>. QED  BY <1>1, <1>4 DEF Pending
<1>7. \A i \in Pending(q) : p[i].status = "pending"
  BY <1>6 DEF Pending
<1>. QED  BY <1>5, <1>6, <1>7 DEF q

\* What the three backstops of a visit leave to be routed: the first pending
\* step, if it is a chart, has rows or is an inline one the budget allows; a
\* plan with rows has a chart if the user wants one.
LEMMA SettledCharts ==
    ASSUME turn_count \in Nat, req \in Request, NEW p \in Seq(PlanItem), SkipsStand(p),
           NEW s \in BOOLEAN
    PROVE  LET q == Settled(p, s)
           IN  /\ q \in Seq(PlanItem) /\ SkipsStand(q)
               /\ \A i \in Pending(q) :
                     q[i].route = "visu" /\ UpstreamSql(q, i) \cap Pending(q) = {} =>
                        IF q[i].src = "inline" THEN ~s ELSE RowsUpstreamIndex(q, i) # 0
               /\ req.chart /\ RowsUpstreamIndex(q, Len(q) + 1) # 0 => HasVisu(q)
<1>. DEFINE a == MaybeInsertVisu(p, req.chart)
            b == SkipBlockedSteps(a, turn_count)
            q == SkipUnbudgetedVisu(b, s, turn_count)
<1>0. req.chart \in BOOLEAN
  BY DEF Request
<1>1. /\ a \in Seq(PlanItem) /\ SkipsStand(a)
      /\ req.chart /\ RowsUpstreamIndex(a, Len(a) + 1) # 0 => HasVisu(a)
  BY <1>0, InsertKeepsSql
<1>. HIDE DEF a
<1>2. Passes(a, b, turn_count) /\ \A i \in Pending(b) : ~IsBlocked(a, i)
  BY <1>1, SkipBlockedPasses
<1>. HIDE DEF b
<1>3. /\ b \in Seq(PlanItem) /\ Len(b) = Len(a) /\ SkipsStand(b)
      /\ \A i \in 1..(Len(a) + 1) :
            /\ RowsUpstreamIndex(b, i) = RowsUpstreamIndex(a, i)
            /\ UpstreamSql(b, i) \cap Pending(b) = UpstreamSql(a, i) \cap Pending(a)
      /\ \A i \in Pending(b) : i \in Pending(a) /\ b[i] = a[i]
      /\ HasVisu(a) => HasVisu(b)
  BY <1>1, <1>2, PassKeepsSql
<1>4. /\ Passes(b, q, turn_count)
      /\ \A i \in Pending(q) : s /\ q[i].route = "visu" =>
            b[i].src # "inline" /\ RowsUpstreamIndex(b, i) # 0
  BY <1>3, SkipUnbudgetedPasses
<1>. HIDE DEF q
<1>5. /\ q \in Seq(PlanItem) /\ Len(q) = Len(b) /\ SkipsStand(q)
      /\ \A i \in 1..(Len(b) + 1) :
            /\ RowsUpstreamIndex(q, i) = RowsUpstreamIndex(b, i)
            /\ UpstreamSql(q, i) \cap Pending(q) = UpstreamSql(b, i) \cap Pending(b)
      /\ \A i \in Pending(q) : i \in Pending(b) /\ q[i] = b[i]
      /\ HasVisu(b) => HasVisu(q)
  BY <1>3, <1>4, PassKeepsSql
<1>6. ASSUME NEW i \in Pending(q), q[i].route = "visu", UpstreamSql(q, i) \cap Pending(q) = {}
      PROVE  IF q[i].src = "inline" THEN ~s ELSE RowsUpstreamIndex(q, i) # 0
  <2>1. /\ i \in Pending(b) /\ i \in Pending(a) /\ q[i] = b[i] /\ b[i] = a[i]
        /\ i \in 1..(Len(a) + 1)
    BY <1>3, <1>5, <1>6 DEF Pending
  <2>2. /\ RowsUpstreamIndex(q, i) = RowsUpstreamIndex(b, i)
        /\ RowsUpstreamIndex(b, i) = RowsUpstreamIndex(a, i)
        /\ UpstreamSql(a, i) \cap Pending(a) = {}
    BY <1>3, <1>5, <1>6, <2>1
  <2>3. a[i].status = "pending"
    BY <2>1 DEF Pending
  <2>4. q[i].src # "inline" => RowsUpstreamIndex(a, i) # 0
    BY <1>2, <1>6, <2>1, <2>2, <2>3 DEF IsBlocked
  <2>. QED  BY <1>4, <1>6, <2>1, <2>2, <2>4
<1>7. ASSUME req.chart, RowsUpstreamIndex(q, Len(q) + 1) # 0 PROVE HasVisu(q)
  <2>1. Len(a) + 1 \in 1..(Len(a) + 1)
    BY <1>1
  <2>. QED  BY <1>1, <1>3, <1>5, <1>7, <2>1
<1>. QED
  BY <1>5, <1>6, <1>7 DEF Settled, a, b, q

\* The backstops leave the sql steps and what is finished, and nothing they
\* bring to an end is done.
LEMMA SettledKeeps ==
    ASSUME turn_count \in Nat, req \in Request, NEW p \in Seq(PlanItem), NEW s \in BOOLEAN
    PROVE  LET q == Settled(p, s)
           IN  /\ q \in Seq(PlanItem) /\ Len(p) <= Len(q) /\ SameSql(p, q, Len(p))
               /\ \A i \in DOMAIN p : /\ q[i].route = p[i].route
                                      /\ p[i].status # "pending" => q[i] = p[i]
               /\ \A i \in DOMAIN q : q[i].status = "done" \/ q[i].route # "visu"
                                         => i \in DOMAIN p /\ q[i] = p[i]
               /\ \A i \in DOMAIN q : \/ q[i].text \in {0, turn_count}
                                      \/ i \in DOMAIN p /\ q[i].text = p[i].text
<1>. DEFINE a == MaybeInsertVisu(p, req.chart)
            b == SkipBlockedSteps(a, turn_count)
            q == SkipUnbudgetedVisu(b, s, turn_count)
<1>0. req.chart \in BOOLEAN
  BY DEF Request
<1>1. /\ a \in Seq(PlanItem) /\ Len(p) <= Len(a) /\ \A i \in DOMAIN p : a[i] = p[i]
  BY <1>0, InsertKeepsSql
<1>2. \A i \in DOMAIN a \ DOMAIN p :
         a[i].route = "visu" /\ a[i].status = "pending" /\ a[i].text = 0
  <2>1. CASE a = p
    BY <2>1
  <2>2. CASE a # p
    <3>. DEFINE item == NewItem("visu", Canned, "database")
    <3>1. /\ a = Append(p, item) /\ item.route = "visu"
         /\ item.status = "pending" /\ item.text = 0
      BY <2>2 DEF MaybeInsertVisu, NewItem
    <3>2. \A i \in DOMAIN a \ DOMAIN p : a[i] = item
      <4>. HIDE DEF item, a
      <4>. QED  BY <3>1
    <3>. QED  BY <3>1, <3>2
  <2>. QED  BY <2>1, <2>2
<1>. HIDE DEF a
<1>3. Passes(a, b, turn_count)
  BY <1>1, SkipBlockedPasses
<1>. HIDE DEF b
<1>4. b \in Seq(PlanItem) /\ Len(b) = Len(a)
  BY <1>3 DEF Passes, Settles
<1>5. Passes(b, q, turn_count)
  BY <1>4, SkipUnbudgetedPasses
<1>. HIDE DEF q
<1>6. q \in Seq(PlanItem) /\ Len(q) = Len(a)
  BY <1>4, <1>5 DEF Passes, Settles
<1>7. \A i \in DOMAIN a :
         \/ q[i] = a[i]
         \/ /\ a[i].route = "visu" /\ a[i].status = "pending" /\ q[i].route = "visu"
            /\ q[i].status # "done" /\ q[i].text = turn_count
  <2>1. DOMAIN b = DOMAIN a
    BY <1>1, <1>4
  <2>2. \A i \in DOMAIN a :
           \/ b[i] = a[i]
           \/ /\ a[i].route = "visu" /\ a[i].status = "pending" /\ b[i].route = "visu"
              /\ b[i].status # "done" /\ b[i].text = turn_count
    BY <1>3 DEF Passes, Settles
  <2>3. \A i \in DOMAIN b :
           \/ q[i] = b[i]
           \/ /\ b[i].route = "visu" /\ b[i].status = "pending" /\ q[i].route = "visu"
              /\ q[i].status # "done" /\ q[i].text = turn_count
    BY <1>5 DEF Passes, Settles
  <2>4. \A i \in DOMAIN b : b[i].status = "pending" => b[i] = a[i]
    BY <1>3, <2>1 DEF Passes
  <2>. QED  BY <2>1, <2>2, <2>3, <2>4
<1>8. DOMAIN p \subseteq DOMAIN a /\ DOMAIN q = DOMAIN a /\ DOMAIN p = 1..Len(p)
  BY <1>1, <1>6
<1>9. SameSql(p, q, Len(p))
  BY <1>1, <1>7, <1>8 DEF SameSql
<1>10. /\ \A i \in DOMAIN p : /\ q[i].route = p[i].route
                              /\ p[i].status # "pending" => q[i] = p[i]
       /\ \A i \in DOMAIN q : q[i].status = "done" \/ q[i].route # "visu"
                                 => i \in DOMAIN p /\ q[i] = p[i]
       /\ \A i \in DOMAIN q : \/ q[i].text \in {0, turn_count}
                              \/ i \in DOMAIN p /\ q[i].text = p[i].text
  BY <1>1, <1>2, <1>7, <1>8
<1>. QED
  BY <1>1, <1>6, <1>9, <1>10 DEF Settled, a, b, q

\* Writing a result into the first pending step gives rows only to what comes
\* after it, and nothing after a pending sql step has been skipped.
LEMMA CompleteKeepsSkips ==
    ASSUME NEW p \in Seq(PlanItem), NEW result \in SpecialistResult, SkipsStand(p)
    PROVE  /\ CompleteCurrentStep(p, result) \in Seq(PlanItem)
           /\ SkipsStand(CompleteCurrentStep(p, result))
<1>. DEFINE n == NextPending(p)
            q == CompleteCurrentStep(p, result)
            status == IF result.status = "done" THEN "done" ELSE "failed"
<1>1. CASE n = 0
  BY <1>1 DEF CompleteCurrentStep
<1>2. CASE n # 0
  <2>1. n \in Pending(p) /\ n \in DOMAIN p /\ p[n] \in PlanItem
    BY <1>2, NextPendingFirst DEF Pending
  <2>2. /\ Settles(p, q) /\ Pending(q) = Pending(p) \ {n}
    BY CompleteSettles
  <2>3. /\ DOMAIN q = DOMAIN p
        /\ q[n].status \in {"done", "failed"}
        /\ \A i \in DOMAIN p \ {n} : q[i] = p[i]
    BY <1>2, <2>1 DEF CompleteCurrentStep, PlanItem
  <2>4. q \in Seq(PlanItem) /\ Len(q) = Len(p) /\ DOMAIN p = 1..Len(p)
    BY <2>2 DEF Settles
  <2>. HIDE DEF q, n
  <2>5. ASSUME NEW i \in DOMAIN q, q[i].status = "skipped"
        PROVE  /\ RowsUpstreamIndex(q, i) = 0
               /\ UpstreamSql(q, i) \cap Pending(q) = {}
    <3>1. i \in DOMAIN p /\ i # n /\ p[i].status = "skipped"
      BY <2>3, <2>5
    <3>2. RowsUpstreamIndex(p, i) = 0 /\ UpstreamSql(p, i) \cap Pending(p) = {}
      BY <3>1 DEF SkipsStand
    <3>3. n \notin UpstreamSql(p, i)
      BY <2>1, <3>2
    <3>4. n \in 1..(i - 1) => p[n].route # "sql"
      BY <3>3 DEF UpstreamSql
    <3>5. q[n].route = p[n].route
      BY <2>1, <2>2 DEF Settles
    <3>6. SameSql(p, q, i - 1)
      BY <2>3, <2>4, <3>1, <3>4, <3>5 DEF SameSql
    <3>7. i \in Nat \ {0} /\ i <= Len(p) + 1 /\ i <= Len(q) + 1
      BY <2>4, <3>1
    <3>. QED  BY <2>4, <3>2, <3>6, <3>7, SameSqlSameRows
  <2>. QED  BY <2>4, <2>5 DEF SkipsStand, q
<1>. QED  BY <1>1, <1>2

-----------------------------------------------------------------------------
(* Plans made from nothing.                                                *)

FreshItem == {item \in PlanItem : item.status = "pending" /\ item.text = 0}

LEMMA FreshNewItem ==
    ASSUME NEW route \in PlanRoutes, NEW task \in AnyTask, NEW src \in DataSources
    PROVE  /\ NewItem(route, task, src) \in FreshItem
           /\ <<NewItem(route, task, src)>> \in Seq(FreshItem)
<1>1. NewItem(route, task, src) \in FreshItem
  BY NewItemType DEF FreshItem, NewItem
<1>. HIDE DEF FreshItem
<1>. QED  BY <1>1

\* A function over the indices of a plan, with fresh items, is a fresh plan.
LEMMA FreshPass ==
    ASSUME NEW X, NEW p \in Seq(X), NEW q, q = [i \in DOMAIN p |-> q[i]],
           \A i \in DOMAIN p : q[i] \in FreshItem
    PROVE  q \in Seq(FreshItem) /\ DOMAIN q = DOMAIN p
<1>1. q \in [1..Len(p) -> FreshItem] /\ DOMAIN q = DOMAIN p
  <2>. HIDE DEF FreshItem
  <2>. QED  OBVIOUS
<1>. HIDE DEF FreshItem
<1>. QED  BY <1>1

\* _plan_from_workflow makes pending items only.
LEMMA WorkflowIsFresh ==
    ASSUME NEW steps \in Seq(PlanStep)
    PROVE  PlanFromWorkflow(steps) \in Seq(FreshItem)
<1>. DEFINE items == [i \in DOMAIN steps |->
                         NewItem(steps[i].route, steps[i].task, InferredSource(steps, i))]
            named == {i \in DOMAIN steps : steps[i].task # Blank}
<1>1. \A i \in DOMAIN steps : steps[i] \in PlanStep
  OBVIOUS
<1>2. \A i \in DOMAIN steps : InferredSource(steps, i) \in DataSources
  BY <1>1 DEF InferredSource, DataSources, PlanStep
<1>3. \A i \in DOMAIN steps : items[i] \in FreshItem
  BY <1>1, <1>2, FreshNewItem DEF PlanStep, AnyTask
<1>4. items = [i \in DOMAIN steps |-> items[i]]
  OBVIOUS
<1>. HIDE DEF items
<1>5. items \in Seq(FreshItem) /\ DOMAIN items = DOMAIN steps
  BY <1>3, <1>4, FreshPass
<1>6. Pick(items, named) \in Seq(FreshItem)
  BY <1>5, PickIsSeq
<1>. QED  BY <1>6 DEF PlanFromWorkflow, items

\* Neither validation nor the clarification cap finishes a step.
LEMMA AdoptedIsFresh ==
    ASSUME NEW p \in Seq(FreshItem), NEW enoughNumbers \in BOOLEAN, NEW count \in Nat
    PROVE  ApplyClarificationCap(ValidatePlan(p, enoughNumbers).plan, count) \in Seq(FreshItem)
<1>. DEFINE asks    == ClarificationSteps(p)
            valid   == ValidSteps(p, enoughNumbers)
            kept    == {i \in valid : Rank(valid, i) < MAX_PLAN_STEPS}
            sourced == [i \in DOMAIN p |->
                           IF p[i].route = "visu" /\ p[i].src # "inline"
                           THEN [p[i] EXCEPT !.src = "database"] ELSE p[i]]
            ask(task) == <<NewItem("clarification", task, "none")>>
            v       == ValidatePlan(p, enoughNumbers).plan
<1>1. \A i \in DOMAIN p : p[i] \in FreshItem
  OBVIOUS
<1>2. ASSUME NEW task \in AnyTask PROVE ask(task) \in Seq(FreshItem)
  BY FreshNewItem DEF PlanRoutes, DataSources
<1>3. v \in Seq(FreshItem)
  <2>1. CASE asks # {}
    <3>1. Least(asks) \in DOMAIN p
      <4>1. asks \in SUBSET Nat /\ asks \subseteq DOMAIN p
        BY DEF ClarificationSteps
      <4>. QED  BY <2>1, <4>1, LeastExists
    <3>2. p[Least(asks)].task \in AnyTask
      <4>. HIDE DEF asks
      <4>. QED  BY <1>1, <3>1 DEF FreshItem, PlanItem
    <3>. DEFINE task == IF p[Least(asks)].task = Blank THEN Canned ELSE p[Least(asks)].task
    <3>3. task \in AnyTask
      BY <3>2 DEF AnyTask
    <3>4. v = ask(task)
      BY <2>1 DEF ValidatePlan
    <3>. HIDE DEF task, v
    <3>. QED  BY <1>2, <3>3, <3>4
  <2>2. CASE asks = {}
    <3>1. v = IF kept = {} THEN ask(Canned) ELSE Pick(sourced, kept)
      BY <2>2 DEF ValidatePlan
    <3>2. \A i \in DOMAIN p : sourced[i] \in FreshItem
      BY <1>1 DEF FreshItem, PlanItem, DataSources
    <3>3. sourced = [i \in DOMAIN p |-> sourced[i]] /\ kept \subseteq DOMAIN p
      BY DEF ValidSteps
    <3>. HIDE DEF sourced, kept
    <3>4. sourced \in Seq(FreshItem) /\ DOMAIN sourced = DOMAIN p
      BY <3>2, <3>3, FreshPass
    <3>5. Pick(sourced, kept) \in Seq(FreshItem)
      BY <3>3, <3>4, PickIsSeq
    <3>6. ask(Canned) \in Seq(FreshItem)
      BY <1>2 DEF AnyTask
    <3>. QED  BY <3>1, <3>5, <3>6
  <2>. QED  BY <2>1, <2>2
<1>. HIDE DEF v
<1>4. ApplyClarificationCap(v, count) \in Seq(FreshItem)
  <2>1. CASE count < MAX_CLARIFICATIONS_PER_TURN
    BY <1>3, <2>1 DEF ApplyClarificationCap
  <2>2. CASE ~(count < MAX_CLARIFICATIONS_PER_TURN)
    <3>. DEFINE q == [i \in DOMAIN v |->
                        IF v[i].route = "clarification"
                        THEN [v[i] EXCEPT !.route = "convo", !.task = Canned] ELSE v[i]]
    <3>1. \A i \in DOMAIN v : v[i] \in FreshItem
      BY <1>3
    <3>2. \A item \in FreshItem :
             [item EXCEPT !.route = "convo", !.task = Canned] \in FreshItem
      BY DEF FreshItem, PlanItem, PlanRoutes, Specialists, AnyTask
    <3>3. \A i \in DOMAIN v : q[i] \in FreshItem
      <4>. HIDE DEF FreshItem
      <4>. QED  BY <3>1, <3>2
    <3>4. q = [i \in DOMAIN v |-> q[i]] /\ ApplyClarificationCap(v, count) = q
      BY <2>2 DEF ApplyClarificationCap
    <3>. HIDE DEF q
    <3>. QED  BY <1>3, <3>3, <3>4, FreshPass
  <2>. QED  BY <2>1, <2>2
<1>. QED  BY <1>4 DEF v

\* Nothing in a fresh plan is skipped.
LEMMA FreshSkips ==
    ASSUME NEW p \in Seq(FreshItem)
    PROVE  p \in Seq(PlanItem) /\ SkipsStand(p)
<1>1. FreshItem \subseteq PlanItem /\ \A item \in FreshItem : item.status = "pending"
  BY DEF FreshItem
<1>. HIDE DEF FreshItem
<1>2. \A i \in DOMAIN p : p[i] \in FreshItem
  OBVIOUS
<1>. QED  BY <1>1, <1>2 DEF SkipsStand

-----------------------------------------------------------------------------
(* The inductive invariant, beside TurnInv.                                *)

\* Before anything is planned there is no sql step whose rows a turn could end with.
NothingQueried ==
    pc = "supervisor" /\ ~plan_ready => \A i \in DOMAIN plan : plan[i].route # "sql"

ChartInv ==
    /\ SkipsStand(plan)
    /\ NothingQueried
    /\ ChartInputIsItsSource
    /\ NoLLMChartWithoutBudget
    /\ ChartWishHonoured

\* Whatever plan a visit routes, its charts are in order.
LEMMA RoutePlanKeepsCharts ==
    ASSUME TurnInv, TurnInv', NEW p \in Seq(PlanItem), SkipsStand(p),
           NEW noProvider, NEW note, NEW s \in BOOLEAN, RoutePlan(p, noProvider, note, s)
    PROVE  ChartInv'
<1>. DEFINE q == Settled(p, s)
            i == NextPending(q)
            source == RowsUpstreamIndex(q, i)
            routed == pc' # "finalize"
<1>1. turn_count \in Nat /\ req \in Request /\ ~turn_cut_short'
  BY DEF TurnInv, TypeOK, HopsWithinBudget
<1>2. /\ plan' = q /\ plan_ready' /\ req' = req
      /\ pc' = "finalize" \/ (i # 0 /\ pc' = q[i].route)
      /\ pc' = "visu" => last_result' = VisuInput(q, i) /\ spent' = s
  <2>1. plan' = q
    BY <1>1 DEF RoutePlan
  <2>2. plan_ready' /\ req' = req
    BY DEF RoutePlan, userVars
  <2>3. pc' = "finalize" \/ (i # 0 /\ pc' = q[i].route)
    BY DEF RoutePlan
  <2>4. pc' = "visu" => last_result' = VisuInput(q, i) /\ spent' = s
    BY DEF RoutePlan
  <2>. QED  BY <2>1, <2>2, <2>3, <2>4
<1>3. /\ q \in Seq(PlanItem) /\ SkipsStand(q)
      /\ \A k \in Pending(q) :
            q[k].route = "visu" /\ UpstreamSql(q, k) \cap Pending(q) = {} =>
               IF q[k].src = "inline" THEN ~s ELSE RowsUpstreamIndex(q, k) # 0
      /\ req.chart /\ RowsUpstreamIndex(q, Len(q) + 1) # 0 => HasVisu(q)
  BY <1>1, SettledCharts
<1>. HIDE DEF q
<1>4. ASSUME pc' = "visu"
      PROVE  /\ ChartInputIsItsSource'
             /\ NoLLMChartWithoutBudget'
  <2>1. /\ i \in Pending(q) /\ i \in DOMAIN q /\ q[i].route = "visu"
        /\ \A j \in Pending(q) : i <= j
    <3>1. i # 0 /\ q[i].route = "visu"
      BY <1>2, <1>4
    <3>. QED  BY <1>3, <3>1, NextPendingFirst DEF Pending
  <2>2. UpstreamSql(q, i) \cap Pending(q) = {}
    <3>1. i \in Nat \ {0}
      BY <1>3, <2>1
    <3>. HIDE DEF i
    <3>. QED  BY <2>1, <3>1 DEF UpstreamSql
  <2>3. IF q[i].src = "inline" THEN ~s ELSE source # 0
    BY <1>3, <2>1, <2>2
  <2>4. NextPending(plan') = i /\ RowsUpstreamIndex(plan', NextPending(plan')) = source
    BY <1>2
  <2>5. CASE q[i].src = "inline"
    <3>1. last_result' = NoResult /\ ~spent'
      BY <1>2, <1>4, <2>3, <2>5 DEF VisuInput
    <3>2. plan'[NextPending(plan')].src = "inline"
      BY <1>2, <2>4, <2>5
    <3>. HIDE DEF i, source
    <3>. QED  BY <3>1, <3>2 DEF ChartInputIsItsSource, NoLLMChartWithoutBudget
  <2>6. CASE q[i].src # "inline"
    <3>1. i \in Nat \ {0} /\ i <= Len(q) + 1
      BY <1>3, <2>1
    <3>2. source \in DOMAIN q /\ q[source].rows \in Nat \ {0}
      BY <1>3, <2>3, <2>6, <3>1, UpstreamRows
    <3>3. last_result' = [source |-> "sql", status |-> "done", text |-> turn_count,
                          rows |-> q[source].rows]
      BY <1>2, <1>4, <2>3, <2>6 DEF VisuInput
    <3>4. last_result'.rows = q[source].rows /\ last_result'.rows # 0
      BY <3>2, <3>3
    <3>5. last_result' # NoResult
      <4>1. last_result' \in SpecialistResult
        BY <1>1, <3>2, <3>3 DEF SpecialistResult, Specialists
      <4>. QED  BY <4>1, InputsAssumption
    <3>6. plan'[NextPending(plan')].src # "inline" /\ plan'[source].rows = last_result'.rows
      BY <1>2, <2>4, <2>6, <3>4
    <3>. HIDE DEF i, source
    <3>. QED
      BY <2>3, <2>4, <2>6, <3>4, <3>5, <3>6 DEF ChartInputIsItsSource, NoLLMChartWithoutBudget
  <2>. QED  BY <2>5, <2>6
<1>5. pc' # "supervisor"
  <2>1. i # 0 => i \in DOMAIN q
    BY <1>3, NextPendingFirst DEF Pending
  <2>2. i # 0 => q[i].route \in PlanRoutes
    <3>. HIDE DEF i
    <3>. QED  BY <1>3, <2>1, ItemType
  <2>. HIDE DEF i
  <2>. QED  BY <1>2, <2>2 DEF PlanRoutes, Specialists
<1>6. ChartWishHonoured'
  BY <1>2, <1>3 DEF ChartWishHonoured
<1>7. pc' # "visu" => ChartInputIsItsSource' /\ NoLLMChartWithoutBudget'
  BY DEF ChartInputIsItsSource, NoLLMChartWithoutBudget
<1>. QED
  BY <1>2, <1>3, <1>4, <1>5, <1>6, <1>7 DEF ChartInv, NothingQueried

\* What a note says of dropped steps, it says of a plan that has work to do.
Noted(p, note) == note # {} => \E i \in DOMAIN p : p[i].route # "clarification"

\* The cap leaves no step of a note's plan a question.
LEMMA AdoptedNote ==
    ASSUME NEW p \in Seq(PlanItem), NEW enoughNumbers \in BOOLEAN, NEW count \in Nat
    PROVE  LET valid == ValidatePlan(p, enoughNumbers)
           IN  Noted(ApplyClarificationCap(valid.plan, count), valid.note)
<1>. DEFINE v    == ValidatePlan(p, enoughNumbers)
            q    == ApplyClarificationCap(v.plan, count)
            kept == {i \in ValidSteps(p, enoughNumbers) :
                        Rank(ValidSteps(p, enoughNumbers), i) < MAX_PLAN_STEPS}
            sourced == [i \in DOMAIN p |->
                           IF p[i].route = "visu" /\ p[i].src # "inline"
                           THEN [p[i] EXCEPT !.src = "database"] ELSE p[i]]
<1>. SUFFICES ASSUME v.note # {} PROVE \E i \in DOMAIN q : q[i].route # "clarification"
  BY DEF Noted
<1>1. /\ ClarificationSteps(p) = {}
      /\ v.plan = IF kept = {} THEN <<NewItem("clarification", Canned, "none")>>
                  ELSE Pick(sourced, kept)
      /\ ValidSteps(p, enoughNumbers) # {}
  BY DEF ValidatePlan
<1>2. kept # {}
  <2>. DEFINE valid == ValidSteps(p, enoughNumbers)
              first == Least(valid)
  <2>1. valid \in SUBSET Nat
    BY DEF ValidSteps
  <2>2. first \in valid /\ \A j \in valid : first <= j /\ j \in Nat
    <3>1. valid # {}
      BY <1>1
    <3>. HIDE DEF valid
    <3>2. Least(valid) \in valid /\ \A j \in valid : Least(valid) <= j
      BY <2>1, <3>1, LeastExists
    <3>. QED  BY <2>1, <3>2
  <2>3. {j \in valid : j < first} = {}
    <3>. HIDE DEF valid, first
    <3>1. \A j \in valid : ~(j < first)
      <4>1. first \in Nat
        BY <2>2
      <4>. QED  BY <2>2, <4>1
    <3>. QED  BY <3>1, Zenon
  <2>4. Rank(valid, first) = 0
    BY <2>3, FS_EmptySet DEF Rank
  <2>5. first \in kept
    BY <2>2, <2>4, BoundsAssumption
  <2>. QED  BY <2>5
<1>3. \A i \in DOMAIN p : p[i] \in PlanItem /\ p[i].route # "clarification"
  BY <1>1 DEF ClarificationSteps
<1>. DEFINE Quiet == {item \in PlanItem : item.route # "clarification"}
<1>4. \A i \in DOMAIN p : sourced[i] \in Quiet
  BY <1>3 DEF PlanItem, DataSources
<1>5. sourced = [i \in DOMAIN p |-> sourced[i]] /\ kept \subseteq DOMAIN p
  BY DEF ValidSteps
<1>6. Pick(sourced, kept) \in Seq(Quiet) /\ Pick(sourced, kept) # <<>>
  <2>. HIDE DEF sourced, kept, Quiet
  <2>1. sourced \in [1..Len(p) -> Quiet] /\ DOMAIN sourced = DOMAIN p
    BY <1>4, <1>5
  <2>2. sourced \in Seq(Quiet)
    BY <2>1
  <2>3. /\ Pick(sourced, kept) \in Seq(Quiet)
        /\ Len(Pick(sourced, kept)) = Cardinality(kept) /\ Cardinality(kept) # 0
    BY <1>2, <1>5, <2>1, <2>2, PickIsSeq
  <2>. QED  BY <2>3
<1>7. 1 \in DOMAIN v.plan /\ v.plan[1] \in PlanItem /\ v.plan[1].route # "clarification"
  <2>. HIDE DEF Quiet, kept, sourced
  <2>1. v.plan \in Seq(Quiet) /\ v.plan # <<>>
    BY <1>1, <1>2, <1>6
  <2>2. 1 \in DOMAIN v.plan /\ v.plan[1] \in Quiet
    <3>. HIDE DEF v
    <3>. QED  BY <2>1
  <2>. QED  BY <2>2 DEF Quiet
<1>. HIDE DEF v
<1>8. 1 \in DOMAIN q /\ q[1] = v.plan[1]
  BY <1>7 DEF ApplyClarificationCap
<1>. QED  BY <1>7, <1>8

\* A visit of supervisor_agent that plans routes a plan made from nothing.
LEMMA SupervisorRoutes ==
    ASSUME TurnInv, Supervisor
    PROVE  \/ AdvancePlan
           \/ EndUnplanned
           \/ \E p \in Seq(FreshItem), noProvider \in BOOLEAN, note \in SUBSET PlanRoutes,
                 s \in BOOLEAN : /\ ~plan_ready /\ RoutePlan(p, noProvider, note, s)
                                 /\ note = plan_note \/ Noted(p, note)
<1>. DEFINE Planned == \E p \in Seq(FreshItem), noProvider \in BOOLEAN,
                          note \in SUBSET PlanRoutes, s \in BOOLEAN :
                          /\ RoutePlan(p, noProvider, note, s)
                          /\ note = plan_note \/ Noted(p, note)
<1>1. /\ req.numbers \in BOOLEAN /\ clarification_count \in Nat
      /\ plan_note \in SUBSET PlanRoutes
  BY DEF TurnInv, TypeOK, Request
<1>2. ASSUME NEW p \in Seq(FreshItem), NEW s \in BOOLEAN, AdoptPlan(p, s)
      PROVE  Planned
  <2>. DEFINE valid  == ValidatePlan(p, req.numbers)
              capped == ApplyClarificationCap(valid.plan, clarification_count)
  <2>1. capped \in Seq(FreshItem)
    BY <1>1, AdoptedIsFresh
  <2>2. p \in Seq(PlanItem)
    BY FreshSkips
  <2>3. valid.note \in SUBSET PlanRoutes
    BY <1>1, <2>2, ValidatePlanShape
  <2>4. RoutePlan(capped, FALSE, valid.note, s)
    BY <1>2 DEF AdoptPlan
  <2>5. Noted(capped, valid.note)
    BY <1>1, <2>2, AdoptedNote
  <2>. HIDE DEF capped, valid
  <2>. QED  BY <2>1, <2>3, <2>4, <2>5
<1>3. ASSUME NEW noProvider \in BOOLEAN, NEW s \in BOOLEAN,
             RoutePlan(<<>>, noProvider, plan_note, s)
      PROVE  Planned
  <2>1. <<>> \in Seq(FreshItem)
    OBVIOUS
  <2>. QED  BY <1>1, <1>3, <2>1
<1>4. ASSUME NEW route \in PlanRoutes, NEW task \in AnyTask, NEW src \in DataSources,
             NEW s \in BOOLEAN, AdoptPlan(<<NewItem(route, task, src)>>, s)
      PROVE  Planned
  <2>. HIDE DEF Planned
  <2>. QED  BY <1>2, <1>4, FreshNewItem
<1>. HIDE DEF Planned
<1>5. ASSUME PlanWorkflow PROVE Planned
  <2>1. PICK steps \in Workflows, s \in BOOLEAN : AdoptPlan(PlanFromWorkflow(steps), s)
    BY <1>5 DEF PlanWorkflow
  <2>2. PlanFromWorkflow(steps) \in Seq(FreshItem)
    BY InputsAssumption, WorkflowIsFresh
  <2>. QED  BY <1>2, <2>1, <2>2
<1>6. ASSUME PlanByDecision PROVE Planned
  <2>1. PICK s \in BOOLEAN :
           \/ \E route \in PlanRoutes, task \in Tasks \cup {Blank} :
                AdoptPlan(<<NewItem(route, task, IF route = "visu" THEN "inline" ELSE "none")>>, s)
           \/ RoutePlan(<<>>, FALSE, plan_note, s)
           \/ AdoptPlan(<<DefaultStep>>, s)
    BY <1>6 DEF PlanByDecision
  <2>2. CASE \E route \in PlanRoutes, task \in Tasks \cup {Blank} :
                AdoptPlan(<<NewItem(route, task, IF route = "visu" THEN "inline" ELSE "none")>>, s)
    <3>1. PICK route \in PlanRoutes, task \in Tasks \cup {Blank} :
             AdoptPlan(<<NewItem(route, task, IF route = "visu" THEN "inline" ELSE "none")>>, s)
      BY <2>2
    <3>2. task \in AnyTask /\ (IF route = "visu" THEN "inline" ELSE "none") \in DataSources
      BY DEF AnyTask, DataSources
    <3>. QED  BY <1>4, <3>1, <3>2
  <2>3. CASE RoutePlan(<<>>, FALSE, plan_note, s)
    BY <1>3, <2>3
  <2>4. CASE AdoptPlan(<<DefaultStep>>, s)
    <3>1. AdoptPlan(<<NewItem(IF req.sensitive THEN "sql" ELSE "convo", Canned, "none")>>, s)
      BY <2>4 DEF DefaultStep
    <3>2. /\ (IF req.sensitive THEN "sql" ELSE "convo") \in PlanRoutes
          /\ Canned \in AnyTask /\ "none" \in DataSources
      BY DEF PlanRoutes, Specialists, AnyTask, DataSources
    <3>. QED  BY <1>4, <3>1, <3>2
  <2>. QED  BY <2>1, <2>2, <2>3, <2>4
<1>7. ASSUME PlanOutage PROVE Planned
  <2>1. PICK s \in BOOLEAN : RoutePlan(<<>>, TRUE, plan_note, s)
    BY <1>7 DEF PlanOutage
  <2>. QED  BY <1>3, <2>1
<1>8. PlanWorkflow \/ PlanByDecision \/ PlanOutage => ~plan_ready /\ Planned
  BY <1>5, <1>6, <1>7 DEF PlanWorkflow, PlanByDecision, PlanOutage
<1>. QED
  BY <1>8 DEF Supervisor, Planned

\* However supervisor_agent leaves a visit, the charts are in order.
LEMMA SupervisorKeepsCharts ==
    ASSUME TurnInv, TurnInv', ChartInv, Supervisor
    PROVE  ChartInv'
<1>1. /\ pc = "supervisor" /\ plan \in Seq(PlanItem) /\ SkipsStand(plan) /\ spent \in BOOLEAN
      /\ last_result \in SpecialistResult \cup {NoResult}
  BY DEF Supervisor, AdvancePlan, EndUnplanned, PlanWorkflow, PlanByDecision, PlanOutage,
         TurnInv, TypeOK, ChartInv
<1>2. CASE AdvancePlan
  <2>1. RoutePlan(Advanced, FALSE, plan_note, spent)
    BY <1>2 DEF AdvancePlan, Advanced
  <2>2. Advanced \in Seq(PlanItem) /\ SkipsStand(Advanced)
    BY <1>1, CompleteKeepsSkips DEF Advanced
  <2>. QED  BY <1>1, <2>1, <2>2, RoutePlanKeepsCharts
<1>3. CASE EndUnplanned
  <2>1. pc' = "finalize" /\ plan' = plan /\ ~plan_ready
    BY <1>3 DEF EndUnplanned
  <2>2. \A i \in DOMAIN plan : plan[i].route # "sql"
    BY <1>1, <2>1 DEF ChartInv, NothingQueried
  <2>3. RowsUpstreamIndex(plan, Len(plan) + 1) = 0
    <3>1. UpstreamSql(plan, Len(plan) + 1) = {}
      BY <1>1, <2>2 DEF UpstreamSql
    <3>. QED  BY <3>1 DEF RowsUpstreamIndex
  <2>. QED
    BY <1>1, <2>1, <2>3
    DEF ChartInv, NothingQueried, ChartInputIsItsSource, NoLLMChartWithoutBudget,
        ChartWishHonoured
<1>4. ASSUME NEW p \in Seq(FreshItem), NEW noProvider, NEW note, NEW s \in BOOLEAN,
             RoutePlan(p, noProvider, note, s)
      PROVE  ChartInv'
  BY <1>4, FreshSkips, RoutePlanKeepsCharts
<1>. QED  BY <1>2, <1>3, <1>4, SupervisorRoutes

\* An answered question leaves that one step, done and never a query.
LEMMA ClarificationKeepsCharts ==
    ASSUME TurnInv, TurnInv', ChartInv, Clarification
    PROVE  ChartInv'
<1>. DEFINE n == NextPending(plan)
<1>1. pc = "paused" /\ pc' = "supervisor" /\ plan \in Seq(PlanItem)
      /\ plan' = [i \in DOMAIN plan |->
                     IF i = n /\ plan[i].route = "clarification"
                     THEN [plan[i] EXCEPT !.status = "done"] ELSE plan[i]]
  BY DEF Clarification, EdgeFrom, TurnInv, TypeOK
<1>2. Len(plan) = 1 /\ n # 0 /\ plan[n].route = "clarification"
  <2>1. Len(plan) = 1
    BY <1>1, AskingState
  <2>. QED  BY <1>1, <2>1 DEF TurnInv, RunningInv, Running
<1>3. n = 1 /\ DOMAIN plan = {1} /\ plan[1] \in PlanItem
  <2>1. n \in 0..Len(plan)
    BY <1>1, NextPendingFirst
  <2>. HIDE DEF n
  <2>. QED  BY <1>1, <1>2, <2>1
<1>. HIDE DEF n
<1>4. /\ DOMAIN plan' = {1} /\ plan'[1].route = "clarification" /\ plan'[1].status = "done"
  BY <1>1, <1>2, <1>3 DEF PlanItem
<1>. QED
  BY <1>1, <1>4
  DEF ChartInv, SkipsStand, NothingQueried, ChartInputIsItsSource, NoLLMChartWithoutBudget,
      ChartWishHonoured

\* Init and every step keep the charts in order.
LEMMA ChartsInductive ==
    /\ Init => ChartInv
    /\ TurnInv /\ TurnInv' /\ ChartInv /\ [Next]_vars => ChartInv'
<1>. USE DEF ChartInv, NothingQueried, ChartInputIsItsSource, NoLLMChartWithoutBudget,
             ChartWishHonoured
<1>1. Init => ChartInv
  BY DEF Init, SkipsStand
<1>2. ASSUME TurnInv, TurnInv', ChartInv, [Next]_vars PROVE ChartInv'
  <2>1. CASE Supervisor
    BY <1>2, <2>1, SupervisorKeepsCharts
  <2>2. CASE Clarification
    BY <1>2, <2>2, ClarificationKeepsCharts
  <2>3. CASE MemoryManager
    BY <2>3 DEF MemoryManager, EdgeFrom, SkipsStand
  <2>4. CASE Specialist
    <3>1. pc' = "supervisor" /\ plan' = plan /\ plan_ready' = plan_ready /\ plan_ready
      BY <1>2, <2>4
      DEF Specialist, Convo, RAG, SqlAgent, ResearchNode, Visualization, Return, EdgeFrom,
          planVars, TurnInv, RunningInv, PlanRoutes, Specialists
    <3>. QED  BY <1>2, <3>1 DEF SkipsStand
  <2>5. CASE NewMessage \/ Interrupt \/ Finalize \/ NodeRaises \/ Crash
    <3>1. pc' \in {"memory_manager", "paused", "idle"} /\ plan' = plan
      BY <2>5
      DEF NewMessage, Interrupt, Finalize, NodeRaises, Crash, Stop, EdgeFrom, planVars
    <3>. QED  BY <1>2, <3>1 DEF SkipsStand
  <2>6. CASE UNCHANGED vars
    BY <1>2, <2>6 DEF vars, planVars, taskVars, userVars, SkipsStand
  <2>. QED
    BY <1>2, <2>1, <2>2, <2>3, <2>4, <2>5, <2>6 DEF Next, GraphStep, Rest
<1>. QED  BY <1>1, <1>2

\* The charts of a turn are in order in every reachable state.
LEMMA ChartInvariant == Spec => []ChartInv
  BY TurnInvariant, ChartsInductive, PTL DEF Spec

-----------------------------------------------------------------------------
(* The properties.                                                         *)

\* A database chart is drawn from the nearest finished sql step before it, an
\* inline chart never starts with rows (supervisor.py, supervisor_agent).
THEOREM ChartsHaveTheirRows == Spec => []ChartInputIsItsSource
<1>1. ChartInv => ChartInputIsItsSource
  BY DEF ChartInv
<1>. QED  BY <1>1, ChartInvariant, PTL

\* With the budget spent only a chart of existing rows is started
\* (supervisor.py, _skip_unbudgeted_visu).
THEOREM SpentBudgetDrawsRowsOnly == Spec => []NoLLMChartWithoutBudget
<1>1. ChartInv => NoLLMChartWithoutBudget
  BY DEF ChartInv
<1>. QED  BY <1>1, ChartInvariant, PTL

\* A turn that has rows and was asked for a chart does not end without a chart
\* step (supervisor.py, _maybe_insert_visu).
THEOREM ChartWishesAreHonoured == Spec => []ChartWishHonoured
<1>1. ChartInv => ChartWishHonoured
  BY DEF ChartInv
<1>. QED  BY <1>1, ChartInvariant, PTL

\* A chart once skipped would have had nothing to draw, whatever ran later
\* (supervisor.py, _skip_blocked_steps).
THEOREM SkipsAreJustified == Spec => []SkippedForCause
<1>1. ChartInv => SkippedForCause
  BY DEF ChartInv, SkipsStand, SkippedForCause
<1>. QED  BY <1>1, ChartInvariant, PTL

-----------------------------------------------------------------------------
(* The picture.                                                            *)

OneChart(p) ==
    \A i, j \in DOMAIN p : p[i].route = "visu" /\ p[j].route = "visu" => i = j

\* The picture there is fits the chart that step k draws.
Pictured(p, k) ==
    /\ chart_path # 0
    /\ p[k].src # "inline" =>
          /\ RowsUpstreamIndex(p, k) # 0
          /\ chart_path = p[RowsUpstreamIndex(p, k)].rows

\* A chart is only drawn when the sql steps before it are finished; as the only
\* one of its plan it stays the one that is shown.
DrawnStands ==
    \A k \in DOMAIN plan : plan[k].route = "visu" /\ plan[k].status = "done" =>
        /\ UpstreamSql(plan, k) \cap Pending(plan) = {}
        /\ OneChart(plan) => Pictured(plan, k)

\* A chart that has just come back was drawn for the first pending step.
JustDrawn ==
    /\ pc = "supervisor" /\ plan_ready /\ last_result # NoResult =>
          (last_result.source = "visu" /\ last_result.status = "done"
             => Pictured(plan, NextPending(plan)))
    /\ pc = "visu" => hops # 0

PictureInv == DrawnStands /\ JustDrawn /\ NothingLost

\* The one step a result is written into.
LEMMA CompleteStep ==
    ASSUME NEW p \in Seq(PlanItem), NEW result \in SpecialistResult, NextPending(p) # 0
    PROVE  LET n == NextPending(p)
               q == CompleteCurrentStep(p, result)
           IN  /\ n \in DOMAIN p /\ n \in Nat \ {0} /\ p[n].status = "pending"
               /\ \A j \in Pending(p) : n <= j
               /\ q \in Seq(PlanItem) /\ Len(q) = Len(p) /\ DOMAIN q = DOMAIN p
               /\ \A i \in DOMAIN p \ {n} : q[i] = p[i]
               /\ q[n].route = p[n].route /\ q[n].task = p[n].task /\ q[n].src = p[n].src
               /\ q[n].status = IF result.status = "done" THEN "done" ELSE "failed"
               /\ q[n].text = result.text /\ q[n].rows = result.rows
<1>. DEFINE n == NextPending(p)
            q == CompleteCurrentStep(p, result)
<1>1. n \in Pending(p) /\ \A j \in Pending(p) : n <= j
  BY NextPendingFirst
<1>2. n \in DOMAIN p /\ p[n].status = "pending" /\ n \in Nat \ {0}
  BY <1>1 DEF Pending
<1>3. p[n] \in PlanItem
  BY <1>2
<1>4. q = [p EXCEPT ![n].status = IF result.status = "done" THEN "done" ELSE "failed",
                    ![n].text   = result.text,
                    ![n].rows   = result.rows]
  BY DEF CompleteCurrentStep
<1>5. q \in Seq(PlanItem) /\ Len(q) = Len(p)
  BY CompleteSettles DEF Settles
<1>. HIDE DEF n, q
<1>6. /\ DOMAIN q = DOMAIN p /\ \A i \in DOMAIN p \ {n} : q[i] = p[i]
      /\ q[n] = [p[n] EXCEPT !.status = IF result.status = "done" THEN "done" ELSE "failed",
                             !.text = result.text, !.rows = result.rows]
  BY <1>2, <1>4
<1>. QED  BY <1>1, <1>2, <1>3, <1>5, <1>6 DEF n, q, PlanItem

\* Nothing is drawn yet in a fresh plan.
Undrawn(p) == \A k \in DOMAIN p : p[k].status # "done"

\* The charts drawn before p is routed keep their rows, and with them the
\* picture, through the backstops.
LEMMA SettledPicture ==
    ASSUME turn_count \in Nat, req \in Request, NEW p \in Seq(PlanItem), NEW s \in BOOLEAN,
           NEW k \in DOMAIN Settled(p, s), Settled(p, s)[k].route = "visu",
           Settled(p, s)[k].status = "done"
    PROVE  LET q == Settled(p, s)
           IN  /\ k \in DOMAIN p /\ p[k].route = "visu" /\ p[k].status = "done"
               /\ UpstreamSql(q, k) \cap Pending(q) = UpstreamSql(p, k) \cap Pending(p)
               /\ Pictured(p, k) => Pictured(q, k)
               /\ OneChart(q) => OneChart(p)
<1>. DEFINE q == Settled(p, s)
            source == RowsUpstreamIndex(p, k)
<1>1. /\ q \in Seq(PlanItem) /\ Len(p) <= Len(q) /\ SameSql(p, q, Len(p))
      /\ \A i \in DOMAIN p : /\ q[i].route = p[i].route
                             /\ p[i].status # "pending" => q[i] = p[i]
      /\ \A i \in DOMAIN q : q[i].status = "done" => i \in DOMAIN p /\ q[i] = p[i]
  BY SettledKeeps
<1>2. q[k].route = "visu" /\ q[k].status = "done" /\ k \in DOMAIN q
  OBVIOUS
<1>. HIDE DEF q
<1>3. k \in DOMAIN p /\ q[k] = p[k] /\ k \in 1..Len(p)
  BY <1>1, <1>2
<1>4. SameSql(p, q, k - 1)
  BY <1>1, <1>3 DEF SameSql
<1>5. k \in Nat \ {0} /\ k <= Len(p) + 1 /\ k <= Len(q) + 1
  BY <1>1, <1>3
<1>6. /\ RowsUpstreamIndex(q, k) = source
      /\ UpstreamSql(q, k) \cap Pending(q) = UpstreamSql(p, k) \cap Pending(p)
  BY <1>1, <1>4, <1>5, SameSqlSameRows
<1>7. ASSUME source # 0 PROVE q[source] = p[source]
  <2>1. source \in UpstreamSql(p, k)
    BY <1>5, <1>7, UpstreamRows
  <2>. HIDE DEF source
  <2>2. source \in 1..(k - 1) /\ p[source].route = "sql"
    BY <2>1 DEF UpstreamSql
  <2>. QED  BY <1>4, <2>2 DEF SameSql
<1>8. Pictured(p, k) => Pictured(q, k)
  <2>. HIDE DEF source
  <2>1. Pictured(p, k) <=> /\ chart_path # 0
                           /\ p[k].src # "inline" =>
                                 source # 0 /\ chart_path = p[source].rows
    BY DEF Pictured, source
  <2>. QED  BY <1>3, <1>6, <1>7, <2>1 DEF Pictured
<1>9. OneChart(q) => OneChart(p)
  <2>1. DOMAIN p \subseteq DOMAIN q
    BY <1>1
  <2>. QED  BY <1>1, <2>1 DEF OneChart
<1>. QED  BY <1>2, <1>3, <1>6, <1>8, <1>9 DEF q

\* What DrawnStands asks of a plan before it is routed.
DrawnIn(p) ==
    \A k \in DOMAIN p : p[k].route = "visu" /\ p[k].status = "done" =>
        /\ UpstreamSql(p, k) \cap Pending(p) = {}
        /\ OneChart(p) => Pictured(p, k)

\* A chart that comes back joins the drawn ones.
LEMMA AdvancedDrawn ==
    ASSUME TurnInv, PictureInv, pc = "supervisor", plan_ready
    PROVE  Advanced \in Seq(PlanItem) /\ DrawnIn(Advanced)
<1>. DEFINE n == NextPending(plan)
            q == CompleteCurrentStep(plan, last_result)
<1>1. /\ plan \in Seq(PlanItem) /\ last_result \in SpecialistResult
      /\ last_result # NoResult
      /\ n # 0 /\ plan[n].route = last_result.source
  BY DEF TurnInv, TypeOK, ResultMatchesStep
<1>2. Advanced = q
  BY <1>1 DEF Advanced
<1>3. /\ n \in DOMAIN plan /\ n \in Nat \ {0} /\ plan[n].status = "pending"
      /\ \A j \in Pending(plan) : n <= j
      /\ q \in Seq(PlanItem) /\ Len(q) = Len(plan) /\ DOMAIN q = DOMAIN plan
      /\ \A i \in DOMAIN plan \ {n} : q[i] = plan[i]
      /\ q[n].route = plan[n].route /\ q[n].task = plan[n].task /\ q[n].src = plan[n].src
      /\ q[n].status = IF last_result.status = "done" THEN "done" ELSE "failed"
  BY <1>1, CompleteStep
<1>4. DOMAIN plan = 1..Len(plan)
  BY <1>1
<1>5. last_result.source = "visu" /\ last_result.status = "done" => Pictured(plan, n)
  BY <1>1 DEF PictureInv, JustDrawn
<1>. HIDE DEF n, q
<1>6. ASSUME NEW k \in DOMAIN q, q[k].route = "visu", q[k].status = "done"
      PROVE  /\ UpstreamSql(q, k) \cap Pending(q) = {}
             /\ OneChart(q) => Pictured(q, k)
  <2>1. /\ UpstreamSql(plan, k) \cap Pending(plan) = {}
        /\ OneChart(plan) => Pictured(plan, k)
        /\ k \in Nat \ {0} /\ k <= Len(plan) + 1 /\ k \in DOMAIN plan
        /\ q[k].src = plan[k].src
    <3>1. k \in Nat \ {0} /\ k <= Len(plan) + 1 /\ k \in DOMAIN plan
      BY <1>3, <1>4, <1>6
    <3>2. CASE k = n
      <4>1. UpstreamSql(plan, k) \cap Pending(plan) = {}
        BY <1>3, <3>2 DEF UpstreamSql
      <4>2. Pictured(plan, k)
        BY <1>1, <1>3, <1>5, <1>6, <3>2
      <4>. QED  BY <1>3, <3>1, <3>2, <4>1, <4>2
    <3>3. CASE k # n
      <4>1. q[k] = plan[k] /\ plan[k].route = "visu" /\ plan[k].status = "done"
        BY <1>3, <1>6, <3>1, <3>3
      <4>. QED  BY <3>1, <4>1 DEF PictureInv, DrawnStands
    <3>. QED  BY <3>2, <3>3
  <2>2. n \in 1..(k - 1) => plan[n].route # "sql"
    <3>1. n \in Pending(plan)
      BY <1>3 DEF Pending
    <3>. QED  BY <2>1, <3>1 DEF UpstreamSql
  <2>3. SameSql(plan, q, k - 1)
    BY <1>3, <1>4, <2>1, <2>2 DEF SameSql
  <2>. DEFINE source == RowsUpstreamIndex(plan, k)
  <2>4. /\ RowsUpstreamIndex(q, k) = source
        /\ UpstreamSql(q, k) \cap Pending(q) = UpstreamSql(plan, k) \cap Pending(plan)
    BY <1>1, <1>3, <2>1, <2>3, SameSqlSameRows
  <2>5. ASSUME source # 0 PROVE q[source] = plan[source]
    <3>1. source \in UpstreamSql(plan, k)
      BY <1>1, <2>1, <2>5, UpstreamRows
    <3>. HIDE DEF source
    <3>2. source \in 1..(k - 1) /\ plan[source].route = "sql"
      BY <3>1 DEF UpstreamSql
    <3>. QED  BY <2>3, <3>2 DEF SameSql
  <2>6. Pictured(plan, k) => Pictured(q, k)
    <3>1. Pictured(plan, k) <=> /\ chart_path # 0
                                /\ plan[k].src # "inline" =>
                                      source # 0 /\ chart_path = plan[source].rows
      BY DEF Pictured
    <3>. HIDE DEF source
    <3>. QED  BY <2>1, <2>4, <2>5, <3>1 DEF Pictured
  <2>7. OneChart(q) => OneChart(plan)
    BY <1>3 DEF OneChart
  <2>. QED  BY <2>1, <2>4, <2>6, <2>7
<1>. QED  BY <1>2, <1>3, <1>6 DEF DrawnIn

\* Where a routed plan leaves the turn.
LEMMA RoutedPlace ==
    ASSUME TurnInv, TurnInv', NEW p \in Seq(PlanItem), NEW noProvider, NEW note,
           NEW s \in BOOLEAN, RoutePlan(p, noProvider, note, s)
    PROVE  /\ plan' = Settled(p, s) /\ plan' \in Seq(PlanItem) /\ plan_ready'
           /\ pc' \in PlanRoutes \cup {"finalize"}
           /\ pc' # "finalize" => /\ hops' = hops + 1 /\ hops' # 0
                                 /\ NextPending(plan') # 0
                                 /\ plan'[NextPending(plan')].route = pc'
           /\ UNCHANGED <<turn_count, chart_path, req, said, reply>>
<1>. DEFINE q == Settled(p, s)
            i == NextPending(q)
<1>1. ~turn_cut_short' /\ hops \in Nat
  BY DEF TurnInv, TypeOK, HopsWithinBudget
<1>2. plan' = q /\ plan' \in Seq(PlanItem)
  BY <1>1 DEF RoutePlan, TurnInv, TypeOK
<1>3. pc' # "finalize" => i # 0 /\ pc' = q[i].route /\ hops' = hops + 1
  BY DEF RoutePlan
<1>4. plan_ready' /\ UNCHANGED <<turn_count, chart_path, req, said, reply>>
  BY DEF RoutePlan, userVars
<1>5. i # 0 => q[i].route \in PlanRoutes
  <2>. HIDE DEF q
  <2>1. i # 0 => i \in DOMAIN q
    BY <1>2, NextPendingFirst DEF Pending
  <2>. HIDE DEF i
  <2>. QED  BY <1>2, <2>1, ItemType
<1>. HIDE DEF q
<1>. QED  BY <1>1, <1>2, <1>3, <1>4, <1>5 DEF q

\* Routing a plan leaves its drawn charts and their picture.
LEMMA RoutePlanKeepsPicture ==
    ASSUME TurnInv, TurnInv', NEW p \in Seq(PlanItem), DrawnIn(p),
           NEW noProvider, NEW note, NEW s \in BOOLEAN, RoutePlan(p, noProvider, note, s)
    PROVE  PictureInv'
<1>. DEFINE q == Settled(p, s)
<1>1. /\ plan' = q /\ pc' \in PlanRoutes \cup {"finalize"} /\ chart_path' = chart_path
      /\ pc' # "finalize" => hops' # 0
  BY RoutedPlace
<1>2. turn_count \in Nat /\ req \in Request
  BY DEF TurnInv, TypeOK
<1>3. ASSUME NEW k \in DOMAIN q, q[k].route = "visu", q[k].status = "done"
      PROVE  /\ UpstreamSql(q, k) \cap Pending(q) = {}
             /\ OneChart(q) => Pictured(q, k)
  <2>1. /\ k \in DOMAIN p /\ p[k].route = "visu" /\ p[k].status = "done"
        /\ UpstreamSql(q, k) \cap Pending(q) = UpstreamSql(p, k) \cap Pending(p)
        /\ Pictured(p, k) => Pictured(q, k)
        /\ OneChart(q) => OneChart(p)
    BY <1>2, <1>3, SettledPicture
  <2>. HIDE DEF q
  <2>. QED  BY <2>1 DEF DrawnIn
<1>. HIDE DEF q
<1>4. DrawnStands'
  BY <1>1, <1>3 DEF DrawnStands, Pictured
<1>5. pc' \notin {"supervisor", "idle"}
  BY <1>1 DEF PlanRoutes, Specialists
<1>. QED
  BY <1>1, <1>4, <1>5 DEF PictureInv, JustDrawn, NothingLost

\* A chart drawn from rows shows those of its source, one drawn from the request
\* any; either way there is a picture (visualization_agent.py).
LEMMA SpecialistKeepsPicture ==
    ASSUME TurnInv, TurnInv', ChartInv, PictureInv, Specialist
    PROVE  PictureInv'
<1>. DEFINE n == NextPending(plan)
<1>1. /\ pc' = "supervisor" /\ plan' = plan /\ plan \in Seq(PlanItem)
      /\ pc \in Specialists
      /\ n # 0 /\ plan[n].route = pc
  BY DEF Specialist, Convo, RAG, SqlAgent, ResearchNode, Visualization, Return, EdgeFrom,
         planVars, TurnInv, TypeOK, RunningInv, Running, PlanRoutes, Specialists
<1>2. /\ n \in DOMAIN plan /\ n \in Pending(plan) /\ plan[n].status = "pending"
      /\ \A j \in Pending(plan) : n <= j
  BY <1>1, NextPendingFirst DEF Pending
<1>. HIDE DEF n
<1>3. CASE Visualization
  <2>1. pc = "visu"
    BY <1>3 DEF Visualization
  <2>2. DrawnStands'
    <3>1. \A k \in DOMAIN plan : plan[k].route = "visu" /\ plan[k].status = "done" =>
             ~OneChart(plan)
      BY <1>1, <1>2, <2>1 DEF OneChart
    <3>. QED  BY <1>1, <3>1 DEF PictureInv, DrawnStands, OneChart
  <2>3. ASSUME last_result'.status = "done"
        PROVE  /\ chart_path' # 0
               /\ plan[n].src # "inline" =>
                     /\ RowsUpstreamIndex(plan, n) # 0
                     /\ chart_path' = plan[RowsUpstreamIndex(plan, n)].rows
    <3>1. \/ HasRows /\ chart_path' = last_result.rows
          \/ ~HasRows /\ ~ChartsDatabase /\ chart_path' = hops
      BY <1>3, <2>3 DEF Visualization, Return, Failure, Result
    <3>2. IF plan[n].src = "inline" THEN last_result = NoResult
          ELSE /\ RowsUpstreamIndex(plan, n) # 0 /\ last_result # NoResult
               /\ last_result.rows = plan[RowsUpstreamIndex(plan, n)].rows
      BY <2>1 DEF ChartInv, ChartInputIsItsSource, n
    <3>3. hops # 0
      BY <2>1 DEF PictureInv, JustDrawn
    <3>4. ASSUME plan[n].src # "inline" PROVE ChartsDatabase
      <4>. DEFINE waiting == {i \in Pending(plan) : plan[i].route = "visu"}
      <4>1. n \in waiting
        BY <1>1, <1>2, <2>1
      <4>2. waiting \in SUBSET Nat
        BY <1>1 DEF Pending
      <4>3. Least(waiting) \in waiting /\ \A j \in waiting : Least(waiting) <= j
        BY <4>1, <4>2, LeastExists
      <4>4. Least(waiting) <= n /\ n <= Least(waiting)
        BY <1>2, <4>1, <4>3
      <4>5. n \in Nat /\ Least(waiting) \in Nat
        BY <4>1, <4>2, <4>3
      <4>6. Least(waiting) = n
        <5>. HIDE DEF waiting
        <5>. QED  BY <4>4, <4>5
      <4>. QED  BY <3>4, <4>1, <4>6 DEF ChartsDatabase
    <3>. QED  BY <3>1, <3>2, <3>3, <3>4 DEF HasRows
  <2>4. JustDrawn'
    <3>1. NextPending(plan') = n
      BY <1>1 DEF n
    <3>. QED  BY <1>1, <2>3, <3>1 DEF JustDrawn, Pictured
  <2>. QED  BY <1>1, <2>2, <2>4 DEF PictureInv, NothingLost
<1>4. CASE ~Visualization
  <2>1. /\ chart_path' = chart_path
        /\ last_result'.source # "visu"
    BY <1>4
    DEF Specialist, Convo, RAG, SqlAgent, ResearchNode, Return, Failure, Result
  <2>2. DrawnStands'
    BY <1>1, <2>1 DEF PictureInv, DrawnStands, Pictured
  <2>3. JustDrawn'
    BY <1>1, <2>1 DEF JustDrawn
  <2>. QED  BY <1>1, <2>2, <2>3 DEF PictureInv, NothingLost
<1>. QED  BY <1>3, <1>4

\* A plan with at most one chart, counted.
LEMMA OnceIsOne ==
    ASSUME plan \in Seq(PlanItem), ShownOnce
    PROVE  OneChart(plan)
<1>. DEFINE S == {i \in DOMAIN plan : plan[i].route = "visu"}
<1>1. IsFiniteSet(S)
  <2>1. Len(plan) \in Nat /\ S \in SUBSET (1..Len(plan))
    OBVIOUS
  <2>2. IsFiniteSet(1..Len(plan))
    BY <2>1, FS_Interval
  <2>. HIDE DEF S
  <2>. QED  BY <2>1, <2>2, FS_Subset
<1>2. Cardinality(S) <= 1
  BY DEF ShownOnce
<1>3. ASSUME NEW i \in S, NEW j \in S, i # j PROVE FALSE
  <2>. HIDE DEF S
  <2>1. Cardinality(S) \in Nat
    BY <1>1, FS_CardinalityType
  <2>2. Cardinality(S) # 0
    BY <1>1, FS_EmptySet
  <2>3. Cardinality(S) = 1
    BY <1>2, <2>1, <2>2
  <2>4. PICK x : S = {x}
    BY <1>1, <2>3, FS_Singleton
  <2>. QED  BY <1>3, <2>4
<1>. QED  BY <1>3 DEF OneChart

\* With one chart in the plan, the reply drops no finished step: what it leaves
\* to the picture is what the picture shows.
LEMMA FinalizeKeepsPicture ==
    ASSUME TurnInv, PictureInv, Finalize
    PROVE  PictureInv'
<1>1. /\ pc' = "idle" /\ reply' = FinalReply /\ plan' = plan /\ chart_path' = chart_path
      /\ plan \in Seq(PlanItem)
  BY DEF Finalize, EdgeFrom, planVars, TurnInv, TypeOK
<1>2. DrawnStands' /\ JustDrawn'
  BY <1>1 DEF PictureInv, DrawnStands, Pictured, JustDrawn
<1>3. ASSUME FinalReply.kind = "answer"
      PROVE  /\ FinalReply.answers = Answers /\ FinalReply.charts = Charts
             /\ FinalReply.image = chart_path
  <2>1. FinalReply = [kind |-> "answer", answers |-> Answers, charts |-> Charts,
                      texts |-> {View(i).text : i \in Answers \cup Charts} \ {0},
                      image |-> chart_path]
    BY <1>3 DEF FinalReply, Reply, NoReply
  <2>. QED  BY <2>1
<1>4. ASSUME ShownOnce, NEW i \in DOMAIN plan, plan[i].status = "done", plan[i].text # 0
      PROVE  \/ i \in Answers
             \/ i \in Charts /\ chart_path # 0
             \/ Charts # {} /\ plan[i].rows # 0 /\ chart_path = plan[i].rows
  <2>1. OneChart(plan) /\ DOMAIN plan = 1..Len(plan)
    BY <1>1, <1>4, OnceIsOne
  <2>2. CompletedResults = {k \in DOMAIN plan : plan[k].status # "pending" /\ plan[k].text # 0}
    BY <1>4 DEF CompletedResults
  <2>3. i \in CompletedResults
    BY <1>4, <2>2
  <2>4. ASSUME NEW k \in Charts
        PROVE  /\ k \in DOMAIN plan /\ k \in Nat \ {0} /\ k <= Len(plan) + 1
               /\ plan[k].route = "visu" /\ plan[k].status = "done"
    <3>1. k \in DOMAIN plan /\ k # 0 /\ View(k).route = "visu" /\ View(k).status = "done"
      BY <2>1, <2>2 DEF Charts
    <3>2. View(k) = [route |-> plan[k].route, status |-> plan[k].status,
                     text |-> plan[k].text]
      BY <3>1 DEF View
    <3>. QED  BY <1>1, <3>1, <3>2
  <2>5. \A k \in Charts : Pictured(plan, k)
    BY <2>1, <2>4 DEF PictureInv, DrawnStands
  <2>6. CASE i \in Charts
    BY <2>5, <2>6 DEF Pictured
  <2>7. CASE i \notin Charts /\ i \notin Answers
    <3>1. PICK k \in Charts : i = ChartSourceIndex(k)
      BY <2>3, <2>7 DEF Answers
    <3>2. i # 0
      BY <2>1
    <3>3. plan[k].src # "inline" /\ RowsUpstreamIndex(plan, k) = i
      BY <3>1, <3>2 DEF ChartSourceIndex
    <3>4. plan[i].rows # 0
      BY <1>1, <2>4, <3>2, <3>3, UpstreamRows
    <3>5. chart_path = plan[i].rows
      BY <2>5, <3>3 DEF Pictured
    <3>. QED  BY <3>1, <3>4, <3>5
  <2>. QED  BY <2>6, <2>7
<1>5. NothingLost'
  BY <1>1, <1>3, <1>4 DEF NothingLost, ShownOnce
<1>. QED  BY <1>2, <1>5 DEF PictureInv

\* Init and every step keep the picture in order.
LEMMA PictureInductive ==
    /\ Init => PictureInv
    /\ TurnInv /\ TurnInv' /\ ChartInv /\ PictureInv /\ [Next]_vars => PictureInv'
<1>1. Init => PictureInv
  BY DEF Init, PictureInv, DrawnStands, JustDrawn, NothingLost, NoReply
<1>2. ASSUME TurnInv, TurnInv', ChartInv, PictureInv, [Next]_vars PROVE PictureInv'
  <2>0. plan \in Seq(PlanItem) /\ spent \in BOOLEAN
    BY <1>2 DEF TurnInv, TypeOK
  <2>1. CASE AdvancePlan
    <3>1. pc = "supervisor" /\ plan_ready /\ RoutePlan(Advanced, FALSE, plan_note, spent)
      BY <2>1 DEF AdvancePlan, Advanced
    <3>. QED  BY <1>2, <2>0, <3>1, AdvancedDrawn, RoutePlanKeepsPicture
  <2>2. CASE EndUnplanned
    <3>1. pc' = "finalize" /\ plan' = plan /\ chart_path' = chart_path
      BY <2>2 DEF EndUnplanned
    <3>. QED  BY <1>2, <3>1 DEF PictureInv, DrawnStands, Pictured, JustDrawn, NothingLost
  <2>3. ASSUME NEW p \in Seq(FreshItem), NEW noProvider, NEW note, NEW s \in BOOLEAN,
               RoutePlan(p, noProvider, note, s)
        PROVE  PictureInv'
    <3>1. p \in Seq(PlanItem)
      BY FreshSkips
    <3>2. \A k \in DOMAIN p : p[k].status = "pending"
      <4>1. \A item \in FreshItem : item.status = "pending"
        BY DEF FreshItem
      <4>2. \A k \in DOMAIN p : p[k] \in FreshItem
        <5>. HIDE DEF FreshItem
        <5>. QED  OBVIOUS
      <4>. QED  BY <4>1, <4>2
    <3>3. DrawnIn(p)
      BY <3>2 DEF DrawnIn
    <3>. QED  BY <1>2, <2>3, <3>1, <3>3, RoutePlanKeepsPicture
  <2>4. CASE Supervisor
    BY <1>2, <2>1, <2>2, <2>3, <2>4, SupervisorRoutes
  <2>5. CASE Specialist
    BY <1>2, <2>5, SpecialistKeepsPicture
  <2>6. CASE Finalize
    BY <1>2, <2>6, FinalizeKeepsPicture
  <2>7. CASE Clarification
    <3>1. pc = "paused" /\ pc' = "supervisor" /\ ~plan_ready'
          /\ plan' = [i \in DOMAIN plan |->
                         IF i = NextPending(plan) /\ plan[i].route = "clarification"
                         THEN [plan[i] EXCEPT !.status = "done"] ELSE plan[i]]
      BY <2>7 DEF Clarification, EdgeFrom
    <3>2. Len(plan) = 1 /\ NextPending(plan) # 0
          /\ plan[NextPending(plan)].route = "clarification"
      BY <1>2, <3>1, AskingState DEF TurnInv, RunningInv, Running
    <3>3. NextPending(plan) \in DOMAIN plan /\ DOMAIN plan = {1}
      BY <2>0, <3>2, NextPendingFirst DEF Pending
    <3>4. plan[1].route = "clarification" /\ plan[1] \in PlanItem
      BY <2>0, <3>2, <3>3
    <3>5. DOMAIN plan' = {1} /\ plan'[1].route = "clarification"
      BY <3>1, <3>3, <3>4 DEF PlanItem
    <3>. QED
      BY <3>1, <3>5 DEF PictureInv, DrawnStands, JustDrawn, NothingLost
  <2>8. CASE MemoryManager
    BY <2>8 DEF MemoryManager, EdgeFrom, PictureInv, DrawnStands, JustDrawn, NothingLost
  <2>9. CASE NewMessage \/ Interrupt
    <3>1. /\ pc' \in {"memory_manager", "paused"}
          /\ plan' = plan /\ chart_path' = chart_path
      BY <2>9 DEF NewMessage, Interrupt, planVars
    <3>. QED
      BY <1>2, <3>1 DEF PictureInv, DrawnStands, Pictured, JustDrawn, NothingLost
  <2>10. CASE NodeRaises \/ Crash
    <3>1. /\ pc' = "idle" /\ plan' = plan /\ chart_path' = chart_path
          /\ reply'.kind \in {"none", "error"}
      BY <2>10 DEF NodeRaises, Crash, Stop, planVars, Reply, NoReply
    <3>. QED
      BY <1>2, <3>1 DEF PictureInv, DrawnStands, Pictured, JustDrawn, NothingLost
  <2>11. CASE UNCHANGED vars
    <3>1. UNCHANGED <<pc, plan, plan_ready, hops, last_result, chart_path, reply>>
      BY <2>11 DEF vars, planVars, taskVars, userVars
    <3>. QED
      BY <1>2, <3>1
      DEF PictureInv, DrawnStands, Pictured, JustDrawn, NothingLost, ShownOnce
  <2>. QED
    BY <1>2, <2>4, <2>5, <2>6, <2>7, <2>8, <2>9, <2>10, <2>11 DEF Next, GraphStep, Rest
<1>. QED  BY <1>1, <1>2

\* With at most one chart in the plan no finished step is lost on its way to the
\* user: what is not said is shown, and what is shown is that step's rows
\* (finalize.py, _split_chart_results).
THEOREM NoFinishedStepIsLost == Spec => []NothingLost
<1>1. PictureInv => NothingLost
  BY DEF PictureInv
<1>. QED
  BY <1>1, TurnInvariant, ChartInvariant, PictureInductive, PTL DEF Spec
=============================================================================
