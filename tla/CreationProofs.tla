---------------------------- MODULE CreationProofs ---------------------------
(* The numbering of cases and invoices, for any number of creations.        *)
EXTENDS Creation, FiniteSetTheorems, WellFoundedInduction, TLAPS

(* Some live number sorts last: there are finitely many.                    *)
LEMMA LastExists ==
  ASSUME CreationTypeOK, NEW k \in Kinds, LiveNumbers(k) # {}
  PROVE  \E n \in LiveNumbers(k) : \A m \in LiveNumbers(k) : StringOrder(m) <= StringOrder(n)
<1> DEFINE L == LiveNumbers(k)
           Above(n) == {m \in L : ~(StringOrder(m) <= StringOrder(n))}
           T == {Above(n) : n \in L}
<1>1. L \subseteq Numbers /\ IsFiniteSet(L)
  <2>1. L \subseteq Numbers BY DEF LiveNumbers
  <2>2. IsFiniteSet(Numbers) BY BoundsOK, FS_Interval DEF Numbers
  <2> QED BY <2>1, <2>2, FS_Subset
<1>2. \A n \in Numbers : StringOrder(n) \in Nat
  BY BoundsOK, PowerOK DEF StringOrder, Numbers
<1>3. T \subseteq FiniteSubsetsOf(L) /\ T # {}
  <2>1. T \subseteq SUBSET L /\ T # {} OBVIOUS
  <2> HIDE DEF T, L
  <2> QED BY <1>1, <2>1, FS_Subset DEF FiniteSubsetsOf
<1> HIDE DEF L
<1>4. PICK A \in T : \A B \in T : ~(<<B, A>> \in StrictSubsetOrdering(L))
  <2>1. IsWellFoundedOn(StrictSubsetOrdering(L), FiniteSubsetsOf(L))
    BY FS_StrictSubsetOrderingWellFounded
  <2> HIDE DEF T
  <2> QED BY <1>3, <2>1, WFMin
<1>5. PICK n \in L : A = Above(n) BY <1>4
<1>6. ASSUME NEW m \in L, ~(StringOrder(m) <= StringOrder(n)) PROVE FALSE
  <2>1. /\ StringOrder(m) \in Nat /\ StringOrder(n) \in Nat
        /\ \A x \in L : StringOrder(x) \in Nat
    BY <1>1, <1>2
  <2>2. Above(m) \subseteq Above(n) /\ m \in Above(n) /\ m \notin Above(m)
    BY <1>6, <2>1
  <2>3. <<Above(m), Above(n)>> \in StrictSubsetOrdering(L)
    BY <2>2 DEF StrictSubsetOrdering
  <2> QED BY <1>4, <1>5, <2>3
<1> QED BY <1>6 DEF L

(* The next number is the one after a live one, and not live itself before  *)
(* the padding runs out.                                                    *)
LEMMA NextNumbers ==
  ASSUME CreationTypeOK, NEW k \in Kinds
  PROVE  /\ NextNumber(k) \in Nat \ {0}
         /\ NextNumber(k) # 1 => NextNumber(k) - 1 \in LiveNumbers(k)
         /\ NextNumber(k) < Base ^ Width => NextNumber(k) \notin LiveNumbers(k)
<1>1. LiveNumbers(k) \subseteq Numbers BY DEF LiveNumbers
<1>2. CASE LiveNumbers(k) = {} BY <1>2 DEF NextNumber
<1>3. CASE LiveNumbers(k) # {}
  <2> DEFINE last == CHOOSE n \in LiveNumbers(k) :
                        \A m \in LiveNumbers(k) : StringOrder(m) <= StringOrder(n)
  <2>1. /\ last \in LiveNumbers(k)
        /\ \A m \in LiveNumbers(k) : StringOrder(m) <= StringOrder(last)
    BY <1>3, LastExists
  <2>2. NextNumber(k) = 1 + last BY <1>3 DEF NextNumber
  <2> HIDE DEF last
  <2>3. last \in Nat \ {0} /\ last + 1 \in Nat /\ last < last + 1 BY <1>1, <2>1, BoundsOK DEF Numbers
  <2>4. ASSUME last + 1 < Base ^ Width, last + 1 \in LiveNumbers(k) PROVE FALSE
    <3>1. last < Base ^ Width BY <2>3, <2>4, PowerOK
    <3>2. StringOrder(last) = 2 * Base * last /\ StringOrder(last + 1) = 2 * Base * (last + 1)
      BY <2>4, <3>1 DEF StringOrder
    <3>3. StringOrder(last + 1) <= StringOrder(last) BY <2>1, <2>4
    <3>4. 2 * Base * (last + 1) > 2 * Base * last
      <4>1. Base \in Nat /\ Base > 0 BY BoundsOK
      <4>2. 2 * Base * (last + 1) = 2 * Base * last + 2 * Base BY <2>3, <4>1
      <4>3. 2 * Base * last \in Nat /\ 2 * Base > 0 BY <2>3, <4>1
      <4> QED BY <4>1, <4>2, <4>3
    <3>5. 2 * Base * (last + 1) \in Nat /\ 2 * Base * last \in Nat BY <2>3, BoundsOK
    <3> QED BY <3>2, <3>3, <3>4, <3>5
  <2> QED BY <2>1, <2>2, <2>3, <2>4
<1> QED BY <1>2, <1>3

-----------------------------------------------------------------------------
(* What a creation stands on: the number before its own has been given out, *)
(* its row is not in the table until the commit, and a case is announced    *)
(* only after it.                                                           *)
CreationHeld ==
  \A r \in Creations :
    LET k == creation[r].kind
        n == creation[r].number
    IN  creation[r].pc # "idle" =>
          /\ n # 1 => n - 1 \in Numbers /\ rows[k][n - 1] # "free"
          /\ creation[r].pc = "readback" => k = "invoice"
          /\ creation[r].pc \notin {"insert", "announce"} => rows[k][n] = "free"
          /\ creation[r].pc = "announce" => (k = "invoice" <=> rows[k][n] = "free")

CreationInv == CreationTypeOK /\ CreationHeld /\ NoGaps /\ AnnouncedCaseExists

(* The same, of one creation. *)
LEMMA CreationFacts ==
  ASSUME CreationInv, NEW r \in Creations, creation[r].pc # "idle",
         NEW k, k = creation[r].kind, NEW n, n = creation[r].number
  PROVE  /\ creation[r] \in CreationJob /\ k \in Kinds /\ n \in Numbers
         /\ n # 1 => n - 1 \in Numbers /\ rows[k][n - 1] # "free"
         /\ creation[r].pc = "readback" => k = "invoice"
         /\ creation[r].pc \notin {"insert", "announce"} => rows[k][n] = "free"
         /\ creation[r].pc = "announce" => (k = "invoice" <=> rows[k][n] = "free")
<1>1. creation[r] \in CreationJob
  BY DEF CreationInv, CreationTypeOK, NoCreation
<1>2. CreationHeld BY DEF CreationInv
<1> QED BY <1>1, <1>2 DEF CreationHeld, CreationJob

(* Below a number with its predecessor given out, all have been. *)
LEMMA FilledBelow ==
  ASSUME NoGaps, NEW k \in Kinds, NEW n \in Numbers,
         n # 1 => n - 1 \in Numbers /\ rows[k][n - 1] # "free"
  PROVE  \A m \in 1..n : m = n \/ rows[k][m] # "free"
<1>1. n \in Nat /\ n >= 1 BY BoundsOK DEF Numbers
<1>2. SUFFICES ASSUME NEW m \in 1..n, m # n PROVE rows[k][m] # "free"
  OBVIOUS
<1>3. n # 1 /\ m \in 1..(n - 1) BY <1>1, <1>2
<1> QED BY <1>3 DEF NoGaps

(* What a step leaves of the others' numbers.                               *)
OthersKeep(movers, k, n) ==
  /\ \A q \in Creations \ movers : creation'[q] = creation[q]
  /\ \A j \in Kinds, m \in Numbers :
       /\ rows[j][m] # "free" => rows'[j][m] # "free"
       /\ rows'[j][m] # rows[j][m] /\ rows[j][m] = "free" =>
            /\ j = k /\ m = n
            /\ \A q \in Creations \ movers : ~Holds(q, k, n)

LEMMA OthersHeld ==
  ASSUME CreationInv, NEW movers, NEW k, NEW n, OthersKeep(movers, k, n),
         NEW q \in Creations \ movers, creation'[q].pc # "idle",
         NEW j, j = creation[q].kind, NEW m, m = creation[q].number
  PROVE  /\ creation'[q] = creation[q] /\ j \in Kinds /\ m \in Numbers
         /\ m # 1 => m - 1 \in Numbers /\ rows'[j][m - 1] # "free"
         /\ creation'[q].pc = "readback" => j = "invoice"
         /\ creation'[q].pc \notin {"insert", "announce"} => rows'[j][m] = "free"
         /\ creation'[q].pc = "announce" => (j = "invoice" <=> rows'[j][m] = "free")
<1>1. creation'[q] = creation[q] /\ creation[q].pc # "idle" BY DEF OthersKeep
<1>2. /\ j \in Kinds /\ m \in Numbers
      /\ m # 1 => m - 1 \in Numbers /\ rows[j][m - 1] # "free"
      /\ creation[q].pc = "readback" => j = "invoice"
      /\ creation[q].pc \notin {"insert", "announce"} => rows[j][m] = "free"
      /\ creation[q].pc = "announce" => (j = "invoice" <=> rows[j][m] = "free")
  BY <1>1, CreationFacts
<1>3. creation[q].pc # "insert" /\ rows[j][m] = "free" => rows'[j][m] = "free"
  <2>1. creation[q].pc # "insert" /\ rows[j][m] = "free" => Holds(q, j, m)
    BY <1>1 DEF Holds
  <2> QED BY <1>2, <2>1 DEF OthersKeep
<1>4. m # 1 => rows'[j][m - 1] # "free" BY <1>2 DEF OthersKeep
<1>5. rows[j][m] # "free" => rows'[j][m] # "free" BY <1>2 DEF OthersKeep
<1> QED BY <1>1, <1>2, <1>3, <1>4, <1>5

(* A step of at most one creation, once its own place is settled. *)
LEMMA StepKeepsCreation ==
  ASSUME CreationInv, NEW movers \in SUBSET Creations, NEW k, NEW n, OthersKeep(movers, k, n),
         \A r, q \in movers : r = q,
         rows' \in [Kinds -> [Numbers -> {"free", "live", "deleted"}]],
         announced' \in [Kinds -> SUBSET Numbers],
         creation' \in [Creations -> {NoCreation} \cup CreationJob],
         \A r \in movers, j \in Kinds, m \in Numbers : Holds(r, j, m)' =>
            \A q \in Creations \ movers : ~Holds(q, j, m),
         \A r \in movers, j \in Kinds, m \in Numbers :
            creation'[r].pc # "idle" /\ j = creation'[r].kind /\ m = creation'[r].number =>
              /\ m # 1 => m - 1 \in Numbers /\ rows'[j][m - 1] # "free"
              /\ creation'[r].pc = "readback" => j = "invoice"
              /\ creation'[r].pc \notin {"insert", "announce"} => rows'[j][m] = "free"
              /\ creation'[r].pc = "announce" => (j = "invoice" <=> rows'[j][m] = "free"),
         NoGaps', AnnouncedCaseExists'
  PROVE  CreationInv'
<1>0. CreationTypeOK BY DEF CreationInv
<1>1. CreationHeld'
  <2>1. SUFFICES ASSUME NEW q \in Creations, creation'[q].pc # "idle",
                        NEW j, j = creation'[q].kind, NEW m, m = creation'[q].number
                 PROVE  /\ m # 1 => m - 1 \in Numbers /\ rows'[j][m - 1] # "free"
                        /\ creation'[q].pc = "readback" => j = "invoice"
                        /\ creation'[q].pc \notin {"insert", "announce"} => rows'[j][m] = "free"
                        /\ creation'[q].pc = "announce" => (j = "invoice" <=> rows'[j][m] = "free")
    BY DEF CreationHeld
  <2>2. CASE q \in movers
    <3>1. j \in Kinds /\ m \in Numbers BY <2>1 DEF NoCreation, CreationJob
    <3> QED BY <2>1, <2>2, <3>1
  <2>3. CASE q \notin movers
    <3>1. creation'[q] = creation[q] BY <2>3 DEF OthersKeep
    <3> QED BY <2>1, <2>3, <3>1, OthersHeld
  <2> QED BY <2>2, <2>3
<1>2. ASSUME NEW r \in Creations, NEW q \in Creations, NEW j \in Kinds, NEW m \in Numbers,
             Holds(r, j, m)', Holds(q, j, m)'
      PROVE  r = q
  <2>1. ASSUME NEW x \in Creations \ movers, Holds(x, j, m)' PROVE Holds(x, j, m)
    <3>1. creation'[x] = creation[x] BY DEF OthersKeep
    <3>2. rows'[j][m] = "free" => rows[j][m] = "free" BY DEF OthersKeep
    <3> QED BY <2>1, <3>1, <3>2 DEF Holds
  <2>2. CASE r \in movers /\ q \in movers BY <2>2
  <2>3. CASE r \in movers /\ q \notin movers BY <1>2, <2>1, <2>3
  <2>4. CASE r \notin movers /\ q \in movers BY <1>2, <2>1, <2>4
  <2>5. CASE r \notin movers /\ q \notin movers
    <3>1. Holds(r, j, m) /\ Holds(q, j, m) BY <1>2, <2>1, <2>5
    <3> QED BY <1>0, <3>1 DEF CreationTypeOK
  <2> QED BY <2>2, <2>3, <2>4, <2>5
<1>3. CreationTypeOK' BY <1>2 DEF CreationTypeOK
<1> QED BY <1>1, <1>3 DEF CreationInv

(* A step that neither inserts nor frees a row. *)
LEMMA TableStays ==
  ASSUME CreationInv, rows' = rows \/ \E k \in Kinds, n \in Numbers : RemoveNumbered(k, n)
  PROVE  /\ rows' \in [Kinds -> [Numbers -> {"free", "live", "deleted"}]]
         /\ \A j \in Kinds, m \in Numbers : rows'[j][m] = "free" <=> rows[j][m] = "free"
         /\ NoGaps'
<1>0. CreationTypeOK /\ NoGaps BY DEF CreationInv
<1>1. \A j \in Kinds, m \in Numbers : rows'[j][m] = "free" <=> rows[j][m] = "free"
  BY <1>0 DEF CreationTypeOK, RemoveNumbered
<1>2. rows' \in [Kinds -> [Numbers -> {"free", "live", "deleted"}]]
  BY <1>0 DEF CreationTypeOK, RemoveNumbered
<1>3. NoGaps'
  <2>1. \A n \in Numbers : 1..n \subseteq Numbers BY BoundsOK DEF Numbers
  <2> QED BY <1>0, <1>1, <2>1 DEF NoGaps
<1> QED BY <1>1, <1>2, <1>3

(* One creation goes on or ends beside the table. *)
LEMMA OneCreationMoves ==
  ASSUME CreationInv, NEW r \in Creations, UNCHANGED rows,
         NEW job \in {NoCreation} \cup CreationJob, creation' = [creation EXCEPT ![r] = job],
         announced' \in [Kinds -> SUBSET Numbers], AnnouncedCaseExists',
         job # NoCreation =>
           /\ job.number # 1 => job.number - 1 \in Numbers /\ rows[job.kind][job.number - 1] # "free"
           /\ job.pc = "readback" => job.kind = "invoice"
           /\ job.pc \notin {"insert", "announce"} => rows[job.kind][job.number] = "free"
           /\ job.pc = "announce" => (job.kind = "invoice" <=> rows[job.kind][job.number] = "free")
           /\ job.pc # "insert" /\ rows[job.kind][job.number] = "free" =>
                \A q \in Creations \ {r} : ~Holds(q, job.kind, job.number)
  PROVE  CreationInv'
<1>0. CreationTypeOK BY DEF CreationInv
<1>1. /\ creation' \in [Creations -> {NoCreation} \cup CreationJob] /\ creation'[r] = job
      /\ \A q \in Creations \ {r} : creation'[q] = creation[q]
  BY <1>0 DEF CreationTypeOK
<1>2. OthersKeep({r}, "case", 1) BY <1>1 DEF OthersKeep
<1>3. job.pc # "idle" => job # NoCreation BY DEF NoCreation
<1>4. \A j \in Kinds, m \in Numbers : Holds(r, j, m)' =>
        \A q \in Creations \ {r} : ~Holds(q, j, m)
  BY <1>1, <1>3 DEF Holds
<1>5. ASSUME NEW j \in Kinds, NEW m \in Numbers,
             creation'[r].pc # "idle" /\ j = creation'[r].kind /\ m = creation'[r].number
      PROVE  /\ m # 1 => m - 1 \in Numbers /\ rows'[j][m - 1] # "free"
             /\ creation'[r].pc = "readback" => j = "invoice"
             /\ creation'[r].pc \notin {"insert", "announce"} => rows'[j][m] = "free"
             /\ creation'[r].pc = "announce" => (j = "invoice" <=> rows'[j][m] = "free")
  BY <1>1, <1>3, <1>5
<1>6. /\ rows' \in [Kinds -> [Numbers -> {"free", "live", "deleted"}]] /\ NoGaps'
  BY TableStays
<1>7. {r} \in SUBSET Creations /\ \A p, q \in {r} : p = q OBVIOUS
<1>8. \A p \in {r}, j \in Kinds, m \in Numbers : Holds(p, j, m)' =>
        \A q \in Creations \ {r} : ~Holds(q, j, m)
  BY <1>4
<1>9. \A p \in {r}, j \in Kinds, m \in Numbers :
        creation'[p].pc # "idle" /\ j = creation'[p].kind /\ m = creation'[p].number =>
          /\ m # 1 => m - 1 \in Numbers /\ rows'[j][m - 1] # "free"
          /\ creation'[p].pc = "readback" => j = "invoice"
          /\ creation'[p].pc \notin {"insert", "announce"} => rows'[j][m] = "free"
          /\ creation'[p].pc = "announce" => (j = "invoice" <=> rows'[j][m] = "free")
  BY <1>5
<1> QED
  BY <1>1, <1>2, <1>6, <1>7, <1>8, <1>9, StepKeepsCreation

-----------------------------------------------------------------------------
LEMMA BeginPreserves ==
  ASSUME CreationInv, NEW r \in Creations, NEW k \in Kinds, BeginCreation(r, k)
  PROVE  CreationInv'
<1>0. CreationTypeOK /\ AnnouncedCaseExists BY DEF CreationInv
<1>1. PICK n : n = NextNumber(k) OBVIOUS
<1> DEFINE job == [pc |-> "insert", kind |-> k, number |-> n]
<1>2. /\ n <= MaxNumber /\ creation' = [creation EXCEPT ![r] = job]
      /\ UNCHANGED <<rows, announced>>
  BY <1>1 DEF BeginCreation
<1>3. /\ n \in Nat \ {0}
      /\ n # 1 => n - 1 \in LiveNumbers(k)
  BY <1>0, <1>1, NextNumbers
<1>4. n \in Numbers BY <1>2, <1>3, BoundsOK DEF Numbers
<1>5. job \in CreationJob /\ job # NoCreation BY <1>4 DEF CreationJob, NoCreation
<1>6. job.pc = "insert" /\ job.kind = k /\ job.number = n OBVIOUS
<1> HIDE DEF job
<1>7. n # 1 => n - 1 \in Numbers /\ rows[k][n - 1] # "free" BY <1>3 DEF LiveNumbers
<1>8. announced' \in [Kinds -> SUBSET Numbers] /\ AnnouncedCaseExists'
  BY <1>0, <1>2 DEF CreationTypeOK, AnnouncedCaseExists
<1> QED BY <1>2, <1>5, <1>6, <1>7, <1>8, OneCreationMoves

(* A creation's next await, or its end. *)
LEMMA GoesToNext ==
  ASSUME CreationInv, NEW r \in Creations, NEW pc, creation[r].pc = pc, pc # "idle", GoOn(r),
         NEW k, k = creation[r].kind, NEW n, n = creation[r].number,
         pc = "readback" => k = "invoice"
  PROVE  \E job \in {NoCreation} \cup CreationJob :
           /\ creation' = [creation EXCEPT ![r] = job]
           /\ \/ job = NoCreation /\ <<k, pc>> \in {<<"case", "announce">>, <<"invoice", "commit">>}
              \/ /\ job # NoCreation /\ job.kind = k /\ job.number = n
                 /\ <<k, pc, job.pc>> \in
                      {<<"case", "insert", "commit">>, <<"case", "commit", "announce">>,
                       <<"invoice", "insert", "announce">>, <<"invoice", "announce", "readback">>,
                       <<"invoice", "readback", "commit">>}
<1>1. creation[r] \in CreationJob /\ k \in Kinds BY CreationFacts
<1>2. pc \in {"insert", "announce", "commit", "readback"} BY <1>1 DEF CreationJob
<1> DEFINE next == ThenAwait(k, pc)
<1>3. \/ <<k, pc, next>> \in {<<"case", "announce", "idle">>, <<"invoice", "commit", "idle">>}
      \/ <<k, pc, next>> \in
           {<<"case", "insert", "commit">>, <<"case", "commit", "announce">>,
            <<"invoice", "insert", "announce">>, <<"invoice", "announce", "readback">>,
            <<"invoice", "readback", "commit">>}
  <2>1. CASE k = "case" BY <1>2, <2>1 DEF ThenAwait
  <2>2. CASE k = "invoice" BY <1>2, <2>2 DEF ThenAwait
  <2> QED BY <1>1, <2>1, <2>2 DEF Kinds
<1>4. IF next = "idle" THEN creation' = [creation EXCEPT ![r] = NoCreation]
      ELSE creation' = [creation EXCEPT ![r].pc = next]
  BY DEF GoOn, EndCreation
<1> HIDE DEF next
<1>5. CASE next = "idle" BY <1>3, <1>4, <1>5
<1>6. CASE next # "idle"
  <2> DEFINE job == [creation[r] EXCEPT !.pc = next]
  <2>1. creation \in [Creations -> {NoCreation} \cup CreationJob]
    BY DEF CreationInv, CreationTypeOK
  <2>2. creation' = [creation EXCEPT ![r] = job] BY <1>4, <1>6, <2>1
  <2>3. next \in {"insert", "announce", "commit", "readback"} BY <1>3, <1>6
  <2>4. job \in CreationJob /\ job.kind = k /\ job.number = n /\ job.pc = next
    BY <1>1, <2>3 DEF CreationJob
  <2>5. job # NoCreation BY <2>3, <2>4 DEF NoCreation
  <2> HIDE DEF job
  <2> QED BY <1>3, <1>6, <2>2, <2>4, <2>5
<1> QED BY <1>5, <1>6

LEMMA EndPreserves ==
  ASSUME CreationInv, NEW r \in Creations, EndCreation(r), UNCHANGED <<rows, announced>>
  PROVE  CreationInv'
<1>1. creation' = [creation EXCEPT ![r] = NoCreation] BY DEF EndCreation
<1>2. announced' \in [Kinds -> SUBSET Numbers] /\ AnnouncedCaseExists'
  BY DEF CreationInv, CreationTypeOK, AnnouncedCaseExists
<1> QED BY <1>1, <1>2, OneCreationMoves

LEMMA InsertPreserves ==
  ASSUME CreationInv, NEW r \in Creations, InsertRow(r)
  PROVE  CreationInv'
<1>1. PICK k, n : k = creation[r].kind /\ n = creation[r].number OBVIOUS
<1>2. /\ creation[r].pc = "insert" /\ \A q \in Creations \ {r} : ~Holds(q, k, n)
      /\ IF rows[k][n] = "free" THEN GoOn(r) ELSE EndCreation(r)
      /\ UNCHANGED <<rows, announced>>
  BY <1>1 DEF InsertRow, CreationAt
<1>3. /\ k \in Kinds /\ n \in Numbers
      /\ n # 1 => n - 1 \in Numbers /\ rows[k][n - 1] # "free"
  BY <1>1, <1>2, CreationFacts
<1>4. CASE rows[k][n] # "free" BY <1>2, <1>4, EndPreserves
<1>5. CASE rows[k][n] = "free"
  <2>1. PICK job \in {NoCreation} \cup CreationJob :
           /\ creation' = [creation EXCEPT ![r] = job]
           /\ job # NoCreation /\ job.kind = k /\ job.number = n
           /\ job.pc = "commit" \/ (k = "invoice" /\ job.pc = "announce")
    BY <1>1, <1>2, <1>5, GoesToNext
  <2>2. announced' \in [Kinds -> SUBSET Numbers] /\ AnnouncedCaseExists'
    BY <1>2 DEF CreationInv, CreationTypeOK, AnnouncedCaseExists
  <2> QED BY <1>2, <1>3, <1>5, <2>1, <2>2, OneCreationMoves
<1> QED BY <1>4, <1>5

LEMMA AnnouncePreserves ==
  ASSUME CreationInv, NEW r \in Creations, AnnounceRow(r)
  PROVE  CreationInv'
<1>1. PICK k, n : k = creation[r].kind /\ n = creation[r].number OBVIOUS
<1>2. /\ creation[r].pc = "announce" /\ GoOn(r) /\ UNCHANGED rows
      /\ announced' = [announced EXCEPT ![k] = @ \cup {n}]
  BY <1>1 DEF AnnounceRow, CreationAt
<1>3. /\ k \in Kinds /\ n \in Numbers
      /\ n # 1 => n - 1 \in Numbers /\ rows[k][n - 1] # "free"
      /\ k = "invoice" <=> rows[k][n] = "free"
  BY <1>1, <1>2, CreationFacts
<1>4. announced' \in [Kinds -> SUBSET Numbers] /\ AnnouncedCaseExists'
  <2>1. announced \in [Kinds -> SUBSET Numbers] /\ AnnouncedCaseExists
    BY DEF CreationInv, CreationTypeOK
  <2>2. announced' \in [Kinds -> SUBSET Numbers] BY <1>2, <1>3, <2>1
  <2>3. "case" \in Kinds /\ "case" # "invoice" BY DEF Kinds
  <2>4. announced'["case"] \subseteq announced["case"] \cup (IF k = "case" THEN {n} ELSE {})
    BY <1>2, <1>3, <2>1, <2>3
  <2> QED BY <1>2, <1>3, <2>1, <2>2, <2>3, <2>4 DEF AnnouncedCaseExists
<1>5. PICK job \in {NoCreation} \cup CreationJob :
         /\ creation' = [creation EXCEPT ![r] = job]
         /\ job = NoCreation \/ /\ job.kind = k /\ job.number = n
                                /\ k = "invoice" /\ job.pc = "readback"
  BY <1>1, <1>2, GoesToNext
<1>6. rows[k][n] = "free" => \A q \in Creations \ {r} : ~Holds(q, k, n)
  <2>1. rows[k][n] = "free" => Holds(r, k, n) BY <1>1, <1>2 DEF Holds
  <2> QED BY <1>3, <2>1 DEF CreationInv, CreationTypeOK
<1> QED BY <1>2, <1>3, <1>4, <1>5, <1>6, OneCreationMoves

(* Its own row is not committed: findOne never finds it. *)
LEMMA ReadBackPreserves ==
  ASSUME CreationInv, NEW r \in Creations, ReadBack(r)
  PROVE  CreationInv'
<1>1. PICK k, n : k = creation[r].kind /\ n = creation[r].number OBVIOUS
<1>2. /\ creation[r].pc = "readback" /\ UNCHANGED <<rows, announced>>
      /\ n \notin LiveNumbers(k) => EndCreation(r)
  BY <1>1 DEF ReadBack, CreationAt
<1>3. rows[k][n] = "free" BY <1>1, <1>2, CreationFacts
<1> QED BY <1>2, <1>3, EndPreserves DEF LiveNumbers

LEMMA CommitPreserves ==
  ASSUME CreationInv, NEW r \in Creations, CommitRow(r)
  PROVE  CreationInv'
<1>0. CreationTypeOK /\ NoGaps /\ AnnouncedCaseExists BY DEF CreationInv
<1>1. PICK k, n : k = creation[r].kind /\ n = creation[r].number OBVIOUS
<1>2. /\ creation[r].pc = "commit" /\ GoOn(r) /\ UNCHANGED announced
      /\ rows' = [rows EXCEPT ![k][n] = "live"]
  BY <1>1 DEF CommitRow, CreationAt
<1>3. /\ k \in Kinds /\ n \in Numbers /\ rows[k][n] = "free"
      /\ n # 1 => n - 1 \in Numbers /\ rows[k][n - 1] # "free"
  BY <1>1, <1>2, CreationFacts
<1>4. /\ rows' \in [Kinds -> [Numbers -> {"free", "live", "deleted"}]]
      /\ rows'[k][n] = "live"
      /\ \A j \in Kinds, m \in Numbers : j # k \/ m # n => rows'[j][m] = rows[j][m]
  BY <1>0, <1>2, <1>3 DEF CreationTypeOK
<1>5. \A q \in Creations \ {r} : ~Holds(q, k, n)
  <2>1. Holds(r, k, n) BY <1>1, <1>2, <1>3 DEF Holds
  <2> QED BY <1>0, <1>3, <2>1 DEF CreationTypeOK
<1>6. PICK job \in {NoCreation} \cup CreationJob :
         /\ creation' = [creation EXCEPT ![r] = job]
         /\ job = NoCreation \/ /\ job.kind = k /\ job.number = n
                                /\ k = "case" /\ job.pc = "announce"
  BY <1>1, <1>2, GoesToNext
<1>7. /\ creation' \in [Creations -> {NoCreation} \cup CreationJob] /\ creation'[r] = job
      /\ \A q \in Creations \ {r} : creation'[q] = creation[q]
  BY <1>0, <1>6 DEF CreationTypeOK
<1>8. OthersKeep({r}, k, n) BY <1>3, <1>4, <1>5, <1>7 DEF OthersKeep
<1>9. NoGaps'
  <2>1. \A m \in 1..n : rows'[k][m] # "free"
    <3>1. \A m \in 1..n : m \in Numbers BY <1>3, BoundsOK DEF Numbers
    <3>2. \A m \in 1..n : m = n \/ rows[k][m] # "free" BY <1>0, <1>3, FilledBelow
    <3> QED BY <1>3, <1>4, <3>1, <3>2
  <2>2. ASSUME NEW j \in Kinds, NEW m \in Numbers, rows'[j][m] # "free", NEW i \in 1..m
        PROVE  rows'[j][i] # "free"
    <3>1. i \in Numbers BY BoundsOK DEF Numbers
    <3>2. CASE j = k /\ m = n BY <2>1, <3>2
    <3>3. CASE ~(j = k /\ m = n)
      <4>1. rows[j][m] # "free" BY <1>4, <2>2, <3>3
      <4>2. rows[j][i] # "free" BY <1>0, <4>1 DEF NoGaps
      <4> QED BY <1>4, <3>1, <4>2
    <3> QED BY <3>2, <3>3
  <2> QED BY <2>2 DEF NoGaps
<1>10. announced' \in [Kinds -> SUBSET Numbers] /\ AnnouncedCaseExists'
  <2>1. announced["case"] \subseteq Numbers /\ "case" \in Kinds
    BY <1>0 DEF CreationTypeOK, Kinds
  <2> QED BY <1>0, <1>2, <1>4, <2>1 DEF AnnouncedCaseExists, CreationTypeOK
<1>11. \A p \in {r}, j \in Kinds, m \in Numbers : Holds(p, j, m)' =>
         \A q \in Creations \ {r} : ~Holds(q, j, m)
  <2>1. \A j \in Kinds, m \in Numbers : ~Holds(r, j, m)'
    BY <1>4, <1>6, <1>7 DEF Holds, NoCreation
  <2> QED BY <2>1
<1>12. \A p \in {r}, j \in Kinds, m \in Numbers :
         creation'[p].pc # "idle" /\ j = creation'[p].kind /\ m = creation'[p].number =>
           /\ m # 1 => m - 1 \in Numbers /\ rows'[j][m - 1] # "free"
           /\ creation'[p].pc = "readback" => j = "invoice"
           /\ creation'[p].pc \notin {"insert", "announce"} => rows'[j][m] = "free"
           /\ creation'[p].pc = "announce" => (j = "invoice" <=> rows'[j][m] = "free")
  <2>1. SUFFICES ASSUME job.pc # "idle"
                 PROVE  /\ n # 1 => n - 1 \in Numbers /\ rows'[k][n - 1] # "free"
                        /\ job.pc = "announce" /\ k = "case"
                        /\ job.kind = k /\ job.number = n
    BY <1>4, <1>7
  <2>2. job # NoCreation BY <2>1 DEF NoCreation
  <2>3. n # 1 => rows'[k][n - 1] # "free" BY <1>3, <1>4
  <2> QED BY <1>3, <1>6, <2>2, <2>3
<1>13. {r} \in SUBSET Creations /\ (\A p \in {r}, q \in {r} : p = q) OBVIOUS
<1> QED BY <1>4, <1>7, <1>8, <1>9, <1>10, <1>11, <1>12, <1>13, StepKeepsCreation

LEMMA RemovePreserves ==
  ASSUME CreationInv, NEW k \in Kinds, NEW n \in Numbers, RemoveNumbered(k, n)
  PROVE  CreationInv'
<1>0. CreationTypeOK /\ AnnouncedCaseExists BY DEF CreationInv
<1>1. /\ rows' \in [Kinds -> [Numbers -> {"free", "live", "deleted"}]]
      /\ \A j \in Kinds, m \in Numbers : rows'[j][m] = "free" <=> rows[j][m] = "free"
      /\ NoGaps' /\ UNCHANGED <<announced, creation>>
  BY TableStays DEF RemoveNumbered
<1>2. OthersKeep({}, k, n) BY <1>1 DEF OthersKeep
<1>3. announced' \in [Kinds -> SUBSET Numbers] /\ AnnouncedCaseExists'
  <2>1. announced["case"] \subseteq Numbers /\ "case" \in Kinds
    BY <1>0 DEF CreationTypeOK, Kinds
  <2> QED BY <1>0, <1>1, <2>1 DEF AnnouncedCaseExists, CreationTypeOK
<1>4. creation' \in [Creations -> {NoCreation} \cup CreationJob]
  BY <1>0, <1>1 DEF CreationTypeOK
<1>5. {} \in SUBSET Creations OBVIOUS
<1> QED BY <1>1, <1>2, <1>3, <1>4, <1>5, StepKeepsCreation

LEMMA CreationStarts == CreationInit => CreationInv
BY DEF CreationInit, CreationInv, CreationTypeOK, CreationHeld, NoGaps, AnnouncedCaseExists,
       Holds, NoCreation, Kinds

LEMMA CreationSteps == CreationInv /\ [CreationNext]_creationVars => CreationInv'
<1> SUFFICES ASSUME CreationInv, [CreationNext]_creationVars PROVE CreationInv'
  OBVIOUS
<1>1. CASE UNCHANGED creationVars
  BY <1>1 DEF creationVars, CreationInv, CreationTypeOK, CreationHeld, NoGaps,
              AnnouncedCaseExists, Holds
<1>2. ASSUME NEW r \in Creations, CreationFail(r) PROVE CreationInv'
  BY <1>2, EndPreserves DEF CreationFail
<1> QED
  BY <1>1, <1>2, BeginPreserves, InsertPreserves, AnnouncePreserves, ReadBackPreserves,
     CommitPreserves, RemovePreserves DEF CreationNext

(* Every step of the creations and removals. *)
THEOREM CreationInductive == CreationSpec => []CreationInv
BY CreationStarts, CreationSteps, PTL DEF CreationSpec

(* Tables, events and creations have their types, and the unique index is   *)
(* held for one creation at a time.                                         *)
THEOREM CreationTypeCorrect == CreationSpec => []CreationTypeOK
<1>1. CreationInv => CreationTypeOK BY DEF CreationInv
<1> QED BY <1>1, CreationInductive, PTL

(* The year's numbers have no holes, an announced case exists, and numbers  *)
(* run out only behind a deleted row or past the padding.                   *)
THEOREM NumbersAreSound == CreationSpec => []NumberingSound
<1>1. CreationInv => NumberingSound
  <2> SUFFICES ASSUME CreationInv PROVE NumberingSound
    OBVIOUS
  <2>1. ASSUME NEW k \in Kinds, NEW n, n = NextNumber(k), n \in Numbers, rows[k][n] # "free"
        PROVE  rows[k][n] = "deleted" \/ n >= Base ^ Width
    <3>1. CreationTypeOK BY DEF CreationInv
    <3>2. n < Base ^ Width => n \notin LiveNumbers(k) BY <2>1, <3>1, NextNumbers
    <3>3. n < Base ^ Width \/ n >= Base ^ Width BY <2>1, PowerOK, BoundsOK DEF Numbers
    <3>4. rows[k][n] \in {"free", "live", "deleted"} BY <2>1, <3>1 DEF CreationTypeOK
    <3> QED BY <2>1, <3>2, <3>3, <3>4 DEF LiveNumbers
  <2>2. StuckOnlyBehindDeleted BY <2>1 DEF StuckOnlyBehindDeleted
  <2> QED BY <2>2 DEF NumberingSound, CreationInv
<1> QED BY <1>1, CreationInductive, PTL
=============================================================================
