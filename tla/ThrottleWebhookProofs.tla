----------------------- MODULE ThrottleWebhookProofs -----------------------
(***************************************************************************)
(* Proofs about two small components, for any number of requests:          *)
(*   - AuthThrottle: how many wrong passwords concurrent logins can        *)
(*     compare before they are blocked;                                    *)
(*   - MailWebhook: a repeated event changes the job once, and an event    *)
(*     that was acknowledged has done so, or is about to.                  *)
(***************************************************************************)
EXTENDS AuthThrottle, MailWebhook, FiniteSetTheorems, TLAPS

LoginPcs == {"idle", "clear", "compare", "reset", "expire", "count", "block"}

\* The requests that are at one of these steps.
Standing(where) == {c \in Logins : pc[c] \in where}

\* Compared a wrong password, and did not count it yet.
Uncounted == Cardinality(Standing({"expire", "count"}))

\* Compared a wrong password, and may have to block yet.
Failing == Cardinality(Standing({"expire", "count", "block"}))

\* About to compare a password.
Comparing == Cardinality(Standing({"compare"}))

Closed == row.blocked \/ row.old

GuessInv ==
  /\ ThrottleTypeOK
  /\ tries <= row.attempts + Uncounted + deaths
  /\ ~Closed => tries <= (Limit - 1) + Failing + deaths
  /\ Closed => tries + Comparing <= (Limit - 1) + Cardinality(Logins) + deaths

-----------------------------------------------------------------------------
(* Counting requests *)

\* The requests at some steps are finitely many.
LEMMA StandingFinite ==
  ASSUME AuthThrottleAssumption, NEW where
  PROVE  /\ IsFiniteSet(Standing(where)) /\ Cardinality(Standing(where)) \in Nat
         /\ Cardinality(Standing(where)) <= Cardinality(Logins)
         /\ Cardinality(Logins) \in Nat
<1>1. IsFiniteSet(Logins) /\ Standing(where) \subseteq Logins
  BY DEF AuthThrottleAssumption, Standing
<1> QED
  BY <1>1, FS_Subset, FS_CardinalityType

\* A request that moves is counted where it goes and no longer where it was.
LEMMA StandingMoves ==
  ASSUME AuthThrottleAssumption, ThrottleTypeOK, NEW c \in Logins, NEW there \in LoginPcs,
         LoginGoto(c, there), NEW where
  PROVE  /\ pc' \in [Logins -> LoginPcs]
         /\ (pc[c] \in where <=> there \in where)
              => Cardinality(Standing(where))' = Cardinality(Standing(where))
         /\ pc[c] \notin where /\ there \in where
              => Cardinality(Standing(where))' = Cardinality(Standing(where)) + 1
         /\ pc[c] \in where /\ there \notin where
              => Cardinality(Standing(where))' = Cardinality(Standing(where)) - 1
<1>1. /\ pc \in [Logins -> LoginPcs] /\ pc' \in [Logins -> LoginPcs]
      /\ pc'[c] = there /\ \A d \in Logins \ {c} : pc'[d] = pc[d]
  BY DEF ThrottleTypeOK, LoginPcs, LoginGoto
<1>2. IsFiniteSet(Standing(where))
  BY StandingFinite
<1>3. ASSUME pc[c] \in where <=> there \in where
      PROVE  Standing(where)' = Standing(where)
  BY <1>1, <1>3 DEF Standing
<1>4. ASSUME pc[c] \notin where, there \in where
      PROVE  Standing(where)' = Standing(where) \union {c} /\ c \notin Standing(where)
  BY <1>1, <1>4 DEF Standing
<1>5. ASSUME pc[c] \in where, there \notin where
      PROVE  Standing(where)' = Standing(where) \ {c} /\ c \in Standing(where)
  BY <1>1, <1>5 DEF Standing
<1> QED
  BY <1>1, <1>2, <1>3, <1>4, <1>5, FS_AddElement, FS_RemoveElement

\* A move, as the counts of the invariant see it.
LEMMA CountsMove ==
  ASSUME AuthThrottleAssumption, ThrottleTypeOK, NEW c \in Logins, NEW there \in LoginPcs,
         LoginGoto(c, there)
  PROVE  /\ pc' \in [Logins -> LoginPcs]
         /\ Uncounted \in Nat /\ Failing \in Nat /\ Comparing \in Nat
         /\ Uncounted' = Uncounted + (IF there \in {"expire", "count"} THEN 1 ELSE 0)
                                   - (IF pc[c] \in {"expire", "count"} THEN 1 ELSE 0)
         /\ Failing' = Failing + (IF there \in {"expire", "count", "block"} THEN 1 ELSE 0)
                               - (IF pc[c] \in {"expire", "count", "block"} THEN 1 ELSE 0)
         /\ Comparing' = Comparing + (IF there = "compare" THEN 1 ELSE 0)
                                   - (IF pc[c] = "compare" THEN 1 ELSE 0)
<1>1. pc' \in [Logins -> LoginPcs]
  BY StandingMoves
<1>2. Uncounted \in Nat /\ Failing \in Nat /\ Comparing \in Nat
  BY StandingFinite DEF Uncounted, Failing, Comparing
<1>3. Uncounted' = Uncounted + (IF there \in {"expire", "count"} THEN 1 ELSE 0)
                             - (IF pc[c] \in {"expire", "count"} THEN 1 ELSE 0)
  BY <1>2, StandingMoves DEF Uncounted
<1>4. Failing' = Failing + (IF there \in {"expire", "count", "block"} THEN 1 ELSE 0)
                         - (IF pc[c] \in {"expire", "count", "block"} THEN 1 ELSE 0)
  BY <1>2, StandingMoves DEF Failing
<1>5. Comparing' = Comparing + (IF there = "compare" THEN 1 ELSE 0)
                             - (IF pc[c] = "compare" THEN 1 ELSE 0)
  <2>1. \A here : here \in {"compare"} <=> here = "compare"
    OBVIOUS
  <2> QED
    BY <1>2, <2>1, StandingMoves DEF Comparing
<1> QED
  BY <1>1, <1>2, <1>3, <1>4, <1>5

\* Who has not counted yet is failing, and who fails is not comparing.
LEMMA CountsRelate ==
  ASSUME AuthThrottleAssumption
  PROVE  Uncounted <= Failing /\ Failing + Comparing <= Cardinality(Logins)
<1> DEFINE U == Standing({"expire", "count"})
           F == Standing({"expire", "count", "block"})
           C == Standing({"compare"})
<1>1. /\ IsFiniteSet(Logins) /\ IsFiniteSet(F) /\ IsFiniteSet(C)
      /\ Cardinality(F) \in Nat /\ Cardinality(C) \in Nat
  BY StandingFinite DEF AuthThrottleAssumption
<1>2. U \subseteq F /\ F \union C \subseteq Logins /\ F \intersect C = {}
  BY DEF Standing
<1>3. Cardinality(U) <= Cardinality(F) /\ Cardinality(F \union C) <= Cardinality(Logins)
  BY <1>1, <1>2, FS_Subset
<1> HIDE DEF U, F, C
<1>4. Cardinality(F \union C) = Cardinality(F) + Cardinality(C) - Cardinality(F \intersect C)
  BY <1>1, FS_Union
<1>5. Cardinality(F \intersect C) = 0
  BY <1>2, FS_EmptySet
<1>6. Cardinality(F) + Cardinality(C) <= Cardinality(Logins)
  BY <1>1, <1>3, <1>4, <1>5
<1> QED
  BY <1>3, <1>6 DEF Uncounted, Failing, Comparing, U, F, C

\* The same numbers after a step.
LEMMA LaterCounts ==
  ASSUME AuthThrottleAssumption
  PROVE  Uncounted' \in Nat /\ Failing' \in Nat /\ Comparing' \in Nat /\ Uncounted' <= Failing'
<1> DEFINE Later(where) == {c \in Logins : pc'[c] \in where}
<1>1. \A where : /\ IsFiniteSet(Later(where)) /\ Cardinality(Later(where)) \in Nat
                 /\ Standing(where)' = Later(where)
  <2> SUFFICES ASSUME NEW where
               PROVE  /\ IsFiniteSet(Later(where)) /\ Cardinality(Later(where)) \in Nat
                      /\ Standing(where)' = Later(where)
    OBVIOUS
  <2>1. IsFiniteSet(Logins) /\ Later(where) \subseteq Logins
    BY DEF AuthThrottleAssumption
  <2> QED
    BY <2>1, FS_Subset, FS_CardinalityType DEF Standing
<1>2. Later({"expire", "count"}) \subseteq Later({"expire", "count", "block"})
  OBVIOUS
<1> HIDE DEF Later
<1> QED
  BY <1>1, <1>2, FS_Subset DEF Uncounted, Failing, Comparing

-----------------------------------------------------------------------------
(* Guesses *)

\* The numbers of the invariant.
LEMMA Numbers ==
  ASSUME AuthThrottleAssumption, ThrottleTypeOK
  PROVE  /\ Limit \in Nat \ {0} /\ tries \in Nat /\ deaths \in Nat /\ row.attempts \in Nat
         /\ row.old \in BOOLEAN /\ row.blocked \in BOOLEAN
         /\ Cardinality(Logins) \in Nat
BY StandingFinite DEF AuthThrottleAssumption, ThrottleTypeOK, Row

\* A deleted row starts at zero, and so does the count of guesses.
LEMMA DeleteStarts ==
  ASSUME AuthThrottleAssumption, GuessInv, NEW c \in Logins, NEW there \in LoginPcs,
         LoginGoto(c, there), Delete, deaths' = deaths
  PROVE  GuessInv'
<1>1. ThrottleTypeOK /\ NoRow \in Row /\ NoRow.attempts = 0 /\ ~NoRow.old /\ ~NoRow.blocked
  BY DEF GuessInv, NoRow, Row
<1>2. pc' \in [Logins -> LoginPcs]
  BY <1>1, CountsMove
<1>3. Uncounted' \in Nat /\ Failing' \in Nat
  BY LaterCounts
<1>4. ThrottleTypeOK'
  BY <1>1, <1>2 DEF Delete, ThrottleTypeOK, LoginPcs, RowExists
<1> QED
  BY <1>1, <1>3, <1>4, Numbers DEF GuessInv, Delete, Closed

\* The bound holds at first.
LEMMA GuessInit ==
  ASSUME AuthThrottleAssumption, ThrottleInit
  PROVE  GuessInv
<1>1. NoRow \in Row /\ NoRow.attempts = 0 /\ ~NoRow.old /\ ~NoRow.blocked
  BY DEF NoRow, Row
<1>2. ThrottleTypeOK
  BY <1>1 DEF ThrottleInit, ThrottleTypeOK, RowExists, AuthThrottleAssumption
<1>3. Uncounted \in Nat /\ Failing \in Nat
  BY StandingFinite DEF Uncounted, Failing
<1> QED
  BY <1>1, <1>2, <1>3, Numbers DEF GuessInv, ThrottleInit, Closed

\* A request that only moves, and neither begins nor ends to fail or to compare.
LEMMA Wanders ==
  ASSUME AuthThrottleAssumption, GuessInv, NEW c \in Logins, NEW there \in LoginPcs,
         LoginGoto(c, there), UNCHANGED <<row, tries, deaths>>,
         pc[c] \in {"expire", "count"} <=> there \in {"expire", "count"},
         pc[c] = "block" <=> there = "block",
         there = "compare" => pc[c] = "compare" \/ ~Closed
  PROVE  GuessInv'
<1>1. ThrottleTypeOK
  BY DEF GuessInv
<1>2. /\ pc' \in [Logins -> LoginPcs]
      /\ Uncounted \in Nat /\ Failing \in Nat /\ Comparing \in Nat
      /\ Uncounted' = Uncounted /\ Failing' = Failing
      /\ Closed => Comparing' <= Comparing
  <2>1. pc[c] \in {"expire", "count", "block"} <=> there \in {"expire", "count", "block"}
    OBVIOUS
  <2>2. Uncounted \in Nat /\ Failing \in Nat /\ Comparing \in Nat
    BY <1>1, CountsMove
  <2>3. pc' \in [Logins -> LoginPcs] /\ Uncounted' = Uncounted
    BY <1>1, <2>2, CountsMove
  <2>4. Failing' = Failing
    BY <1>1, <2>1, <2>2, CountsMove
  <2>5. Closed => Comparing' <= Comparing
    BY <1>1, <2>2, CountsMove
  <2> QED
    BY <2>2, <2>3, <2>4, <2>5
<1>3. ThrottleTypeOK'
  BY <1>1, <1>2 DEF ThrottleTypeOK, LoginPcs, RowExists
<1>4. Comparing' \in Nat
  BY LaterCounts
<1> QED
  BY <1>1, <1>2, <1>3, <1>4, Numbers DEF GuessInv, Closed

\* The steps before the password is compared.
LEMMA CheckGuesses ==
  ASSUME AuthThrottleAssumption, GuessInv, NEW c \in Logins, CheckReads(c) \/ CheckClears(c)
  PROVE  GuessInv'
<1>1. ThrottleTypeOK
  BY DEF GuessInv
<1>2. CASE CheckReads(c)
  <2>1. pc[c] = "idle" /\ UNCHANGED <<row, tries, deaths>>
    BY <1>2 DEF CheckReads, LoginAt
  <2>2. CASE LoginGoto(c, "clear")
    BY <2>1, <2>2, Wanders DEF LoginPcs
  <2>3. CASE LoginGoto(c, "compare") /\ ~(RowExists /\ row.old)
    <3>1. ~Closed
      BY <1>1, <1>2, <2>3 DEF Closed, CheckReads, ThrottleTypeOK
    <3> QED
      BY <2>1, <2>3, <3>1, Wanders DEF LoginPcs
  <2> QED
    BY <1>2, <2>2, <2>3 DEF CheckReads
<1>3. CASE CheckClears(c) /\ RowExists
  BY <1>3, DeleteStarts DEF CheckClears, LoginPcs
<1>4. CASE CheckClears(c) /\ ~RowExists
  <2>1. pc[c] = "clear" /\ LoginGoto(c, "idle") /\ UNCHANGED <<row, tries, deaths>>
    BY <1>4 DEF CheckClears, LoginAt
  <2> QED
    BY <2>1, Wanders DEF LoginPcs
<1> QED
  BY <1>2, <1>3, <1>4

\* A comparison makes a request one that fails, or one that resets.
LEMMA CompareGuesses ==
  ASSUME AuthThrottleAssumption, GuessInv, NEW c \in Logins,
         CompareWrong(c) \/ CompareRight(c) \/ Reset(c)
  PROVE  GuessInv'
<1>1. ThrottleTypeOK
  BY DEF GuessInv
<1>2. CASE CompareWrong(c)
  <2>1. /\ pc[c] = "compare" /\ LoginGoto(c, "expire") /\ tries' = tries + 1
        /\ row' = row /\ deaths' = deaths
    BY <1>2 DEF CompareWrong, LoginAt
  <2>2. /\ pc' \in [Logins -> LoginPcs]
        /\ Uncounted \in Nat /\ Failing \in Nat /\ Comparing \in Nat
        /\ Uncounted' = Uncounted + 1 /\ Failing' = Failing + 1 /\ Comparing' = Comparing - 1
    BY <1>1, <2>1, CountsMove DEF LoginPcs
  <2>3. ThrottleTypeOK'
    BY <1>1, <2>1, <2>2, Numbers DEF ThrottleTypeOK, LoginPcs, RowExists
  <2> QED
    BY <1>1, <2>1, <2>2, <2>3, Numbers DEF GuessInv, Closed
<1>3. CASE CompareRight(c)
  <2>1. pc[c] = "compare" /\ UNCHANGED <<row, tries, deaths>>
    BY <1>3 DEF CompareRight, LoginAt
  <2>2. CASE LoginGoto(c, "reset")
    BY <2>1, <2>2, Wanders DEF LoginPcs
  <2>3. CASE LoginGoto(c, "expire")
    <3>1. /\ pc' \in [Logins -> LoginPcs]
          /\ Uncounted \in Nat /\ Failing \in Nat /\ Comparing \in Nat
          /\ Uncounted' = Uncounted + 1 /\ Failing' = Failing + 1 /\ Comparing' = Comparing - 1
      BY <1>1, <2>1, <2>3, CountsMove DEF LoginPcs
    <3>2. ThrottleTypeOK'
      BY <1>1, <2>1, <3>1, Numbers DEF ThrottleTypeOK, LoginPcs, RowExists
    <3> QED
      BY <1>1, <2>1, <3>1, <3>2, Numbers DEF GuessInv, Closed
  <2> QED
    BY <1>3, <2>2, <2>3 DEF CompareRight
<1>4. CASE Reset(c)
  BY <1>4, DeleteStarts DEF Reset, LoginPcs
<1> QED
  BY <1>2, <1>3, <1>4

\* A failure is counted, and blocks once the limit is reached.
LEMMA FailureGuesses ==
  ASSUME AuthThrottleAssumption, GuessInv, NEW c \in Logins,
         FailureExpires(c) \/ FailureCounts(c) \/ FailureBlocks(c)
  PROVE  GuessInv'
<1>1. ThrottleTypeOK /\ row \in Row
  BY DEF GuessInv, ThrottleTypeOK
<1>2. CASE FailureExpires(c)
  <2>1. CASE row.old
    BY <1>2, <2>1, DeleteStarts DEF FailureExpires, LoginPcs
  <2>2. CASE ~row.old
    <3>1. pc[c] = "expire" /\ LoginGoto(c, "count") /\ UNCHANGED <<row, tries, deaths>>
      BY <1>2, <2>2 DEF FailureExpires, LoginAt
    <3> QED
      BY <3>1, Wanders DEF LoginPcs
  <2> QED
    BY <2>1, <2>2
<1>3. CASE FailureCounts(c)
  <2> DEFINE next == IF row.attempts + 1 >= Limit THEN "block" ELSE "idle"
  <2>1. /\ pc[c] = "count" /\ LoginGoto(c, next) /\ tries' = tries /\ deaths' = deaths
        /\ row' = [row EXCEPT !.attempts = row.attempts + 1]
    BY <1>3 DEF FailureCounts, LoginAt
  <2>2. /\ row' \in Row /\ row'.attempts = row.attempts + 1
        /\ row'.old = row.old /\ row'.blocked = row.blocked
    BY <1>1, <2>1, Numbers DEF Row
  <2>3. /\ pc' \in [Logins -> LoginPcs]
        /\ Uncounted \in Nat /\ Failing \in Nat /\ Comparing \in Nat
        /\ Uncounted' = Uncounted - 1 /\ Comparing' = Comparing
        /\ row.attempts + 1 >= Limit => Failing' = Failing
        /\ Failing' \in Nat
    <3>1. CASE row.attempts + 1 >= Limit
      BY <1>1, <2>1, <3>1, CountsMove DEF LoginPcs, Failing
    <3>2. CASE ~(row.attempts + 1 >= Limit)
      <4>1. /\ pc' \in [Logins -> LoginPcs]
            /\ Uncounted \in Nat /\ Failing \in Nat /\ Comparing \in Nat
            /\ Uncounted' = Uncounted - 1 /\ Comparing' = Comparing /\ Failing' = Failing - 1
        BY <1>1, <2>1, <3>2, CountsMove DEF LoginPcs
      <4> QED
        BY <3>2, <4>1, LaterCounts
    <3> QED
      BY <3>1, <3>2
  <2>4. Uncounted' <= Failing'
    BY LaterCounts
  <2>5. ThrottleTypeOK'
    BY <1>1, <2>1, <2>2, <2>3, Numbers DEF ThrottleTypeOK, LoginPcs, RowExists
  <2>6. tries' <= row'.attempts + Uncounted' + deaths'
    BY <1>1, <2>1, <2>2, <2>3, Numbers DEF GuessInv
  <2>7. ~Closed' => tries' <= (Limit - 1) + Failing' + deaths'
    <3>1. CASE row.attempts + 1 >= Limit
      BY <2>1, <2>2, <2>3, <3>1 DEF GuessInv, Closed
    <3>2. CASE ~(row.attempts + 1 >= Limit)
      BY <1>1, <2>1, <2>2, <2>3, <2>4, <2>6, <3>2, Numbers
    <3> QED
      BY <3>1, <3>2
  <2>8. Closed' => tries' + Comparing' <= (Limit - 1) + Cardinality(Logins) + deaths'
    BY <2>1, <2>2, <2>3 DEF GuessInv, Closed
  <2> QED
    BY <2>5, <2>6, <2>7, <2>8 DEF GuessInv
<1>4. CASE FailureBlocks(c)
  <2>1. /\ pc[c] = "block" /\ LoginGoto(c, "idle") /\ tries' = tries /\ deaths' = deaths
        /\ row' = IF RowExists THEN [row EXCEPT !.blocked = TRUE] ELSE row
    BY <1>4 DEF FailureBlocks, LoginAt
  <2>2. /\ pc' \in [Logins -> LoginPcs]
        /\ Uncounted \in Nat /\ Failing \in Nat /\ Comparing \in Nat
        /\ Uncounted' = Uncounted /\ Failing' = Failing - 1 /\ Comparing' = Comparing
    BY <1>1, <2>1, CountsMove DEF LoginPcs
  <2>3. CASE RowExists
    <3>1. /\ row' \in Row /\ row'.attempts = row.attempts /\ row'.blocked /\ row'.old = row.old
      BY <1>1, <2>1, <2>3 DEF Row
    <3>2. ThrottleTypeOK'
      BY <1>1, <2>1, <2>2, <2>3, <3>1 DEF ThrottleTypeOK, LoginPcs, RowExists
    <3>3. tries + Comparing <= (Limit - 1) + Cardinality(Logins) + deaths
      BY <1>1, <2>2, CountsRelate, Numbers DEF GuessInv
    <3> QED
      BY <2>1, <2>2, <3>1, <3>2, <3>3 DEF GuessInv, Closed
  <2>4. CASE ~RowExists
    <3>1. row' = row /\ row.attempts = 0 /\ ~Closed
      BY <1>1, <2>1, <2>4, Numbers DEF RowExists, ThrottleTypeOK, Closed
    <3>2. ThrottleTypeOK'
      BY <1>1, <2>1, <2>2, <3>1 DEF ThrottleTypeOK, LoginPcs, RowExists
    <3>3. Uncounted' <= Failing'
      BY LaterCounts
    <3>4. tries <= Uncounted + deaths
      BY <1>1, <3>1, <2>2, Numbers DEF GuessInv
    <3>5. ~Closed' /\ row'.attempts = 0
      BY <3>1 DEF Closed
    <3>6. tries' <= row'.attempts + Uncounted' + deaths'
      BY <1>1, <2>1, <2>2, <3>4, <3>5, Numbers
    <3>7. tries' <= (Limit - 1) + Failing' + deaths'
      BY <1>1, <2>1, <2>2, <3>3, <3>4, Numbers
    <3> QED
      BY <3>2, <3>5, <3>6, <3>7 DEF GuessInv
  <2> QED
    BY <2>3, <2>4
<1> QED
  BY <1>2, <1>3, <1>4

\* A request that dies may leave a failure uncounted or a block unwritten.
LEMMA DeathGuesses ==
  ASSUME AuthThrottleAssumption, GuessInv, NEW c \in Logins, RequestDies(c)
  PROVE  GuessInv'
<1>1. ThrottleTypeOK
  BY DEF GuessInv
<1>2. /\ LoginGoto(c, "idle") /\ tries' = tries /\ row' = row
      /\ deaths' = deaths + 1 /\ deaths' \in 0 .. MaxDeaths
  BY <1>1 DEF RequestDies, ThrottleTypeOK, AuthThrottleAssumption
<1>3. /\ pc' \in [Logins -> LoginPcs]
      /\ Uncounted \in Nat /\ Failing \in Nat /\ Comparing \in Nat
      /\ Uncounted' \in {Uncounted, Uncounted - 1} /\ Failing' \in {Failing, Failing - 1}
      /\ Comparing' \in {Comparing, Comparing - 1}
  BY <1>1, <1>2, CountsMove DEF LoginPcs
<1>4. ThrottleTypeOK'
  BY <1>1, <1>2, <1>3 DEF ThrottleTypeOK, LoginPcs, RowExists
<1> QED
  BY <1>1, <1>2, <1>3, <1>4, Numbers DEF GuessInv, Closed

\* A window or a block that passes leaves the count as it is.
LEMMA TimeGuesses ==
  ASSUME AuthThrottleAssumption, GuessInv, WindowPasses \/ BlockPasses \/ UNCHANGED throttleVars
  PROVE  GuessInv'
<1>1. ThrottleTypeOK /\ row \in Row
  BY DEF GuessInv, ThrottleTypeOK
<1>2. pc' = pc /\ tries' = tries /\ deaths' = deaths
  BY DEF WindowPasses, BlockPasses, throttleVars
<1>3. Uncounted' = Uncounted /\ Failing' = Failing /\ Comparing' = Comparing
  BY <1>2 DEF Uncounted, Failing, Comparing, Standing
<1>4. Uncounted \in Nat /\ Failing \in Nat /\ Comparing \in Nat
  BY StandingFinite DEF Uncounted, Failing, Comparing
<1>5. tries + Comparing <= (Limit - 1) + Cardinality(Logins) + deaths
  BY <1>1, <1>4, CountsRelate, Numbers DEF GuessInv
<1>6. CASE WindowPasses
  <2>1. row' \in Row /\ row'.attempts = row.attempts /\ row'.old
    BY <1>1, <1>6 DEF WindowPasses, Row
  <2>2. ThrottleTypeOK'
    BY <1>1, <1>2, <1>6, <2>1 DEF ThrottleTypeOK, WindowPasses, RowExists
  <2> QED
    BY <1>2, <1>3, <1>5, <2>1, <2>2 DEF GuessInv, Closed
<1>7. CASE BlockPasses
  <2>1. row' \in Row /\ row'.attempts = row.attempts /\ row'.old
    BY <1>1, <1>7 DEF BlockPasses, Row
  <2>2. ThrottleTypeOK'
    BY <1>1, <1>2, <1>7, <2>1 DEF ThrottleTypeOK, BlockPasses, RowExists
  <2> QED
    BY <1>2, <1>3, <1>5, <2>1, <2>2 DEF GuessInv, Closed
<1>8. CASE UNCHANGED throttleVars
  BY <1>3, <1>8 DEF throttleVars, GuessInv, ThrottleTypeOK, RowExists, Closed
<1> QED
  BY <1>6, <1>7, <1>8

\* Every step keeps the bound.
LEMMA GuessStep ==
  ASSUME AuthThrottleAssumption
  PROVE  GuessInv /\ [ThrottleNext]_throttleVars => GuessInv'
BY CheckGuesses, CompareGuesses, FailureGuesses, DeathGuesses, TimeGuesses
DEF ThrottleNext, Login

\* The row, the requests and the counts keep their types (schema.prisma, model AuthRateLimit).
THEOREM ThrottleTypes ==
  ASSUME AuthThrottleAssumption
  PROVE  ThrottleSpec => []ThrottleTypeOK
<1>1. GuessInv => ThrottleTypeOK
  BY DEF GuessInv
<1>2. GuessInv /\ [ThrottleNext]_throttleVars => GuessInv'
  BY GuessStep
<1>3. ThrottleInit => GuessInv
  BY GuessInit
<1> QED
  BY <1>1, <1>2, <1>3, PTL DEF ThrottleSpec

\* However many logins run at once, in whatever order they read, compare and count, they
\* compare at most one wrong password each beyond the limit, and one more for every request
\* that dies (auth-throttle.service.ts:45-109).
THEOREM GuessesAreBounded ==
  ASSUME AuthThrottleAssumption
  PROVE  ThrottleSpec => []GuessBound
<1>1. GuessInv => GuessBound
  <2> SUFFICES ASSUME GuessInv PROVE GuessBound
    OBVIOUS
  <2>1. ThrottleTypeOK
    BY DEF GuessInv
  <2>2. Failing \in Nat /\ Comparing \in Nat
    BY StandingFinite DEF Failing, Comparing
  <2> QED
    BY <2>1, <2>2, CountsRelate, Numbers DEF GuessInv, GuessBound
<1>2. GuessInv /\ [ThrottleNext]_throttleVars => GuessInv'
  BY GuessStep
<1>3. ThrottleInit => GuessInv
  BY GuessInit
<1> QED
  BY <1>1, <1>2, <1>3, PTL DEF ThrottleSpec

-----------------------------------------------------------------------------
(* Events *)

HandlerPcs == {"idle", "insert", "suppress", "apply", "mark"}

\* A delivery that inserted the row of its event is at work on it.
Works(c, e) == handler[c].pc \in {"suppress", "apply", "mark"} /\ handler[c].event = e

\* What became of an event whose row is there.
Effective(e) == applied[e] > 0 \/ e \in excused \/ \E c \in Deliveries : Works(c, e)

\* What the delivery c knows: it alone is at work on its event, which it has not applied
\* before the update, and after it has, unless there was nothing to update.
DeliveryKnows(c) ==
  /\ handler[c].pc # "idle" <=> handler[c].event \in Events
  /\ \A d \in Deliveries, e \in Events : Works(c, e) /\ Works(d, e) => c = d
  /\ handler[c].pc \in {"suppress", "apply"} => applied[handler[c].event] = 0
  /\ handler[c].pc = "mark" => applied[handler[c].event] > 0 \/ handler[c].event \in excused

EventInv ==
  /\ WebhookTypeOK
  /\ \A c \in Deliveries : DeliveryKnows(c)
  /\ \A e \in Events : IF event[e] = "none" THEN applied[e] = 0 /\ e \notin acked
                        ELSE Effective(e)
  /\ AppliedOnce

\* A delivery that goes on keeps its event.
LEMMA HandlerMoves ==
  ASSUME handler \in [Deliveries -> Handler], NEW c \in Deliveries, NEW there \in HandlerPcs,
         HandlerGoto(c, there)
  PROVE  /\ handler' \in [Deliveries -> Handler]
         /\ handler'[c].pc = there /\ handler'[c].event = handler[c].event
         /\ \A d \in Deliveries \ {c} : handler'[d] = handler[d]
<1>1. /\ [handler[c] EXCEPT !.pc = there] \in Handler
      /\ [handler[c] EXCEPT !.pc = there].pc = there
      /\ [handler[c] EXCEPT !.pc = there].event = handler[c].event
  BY DEF Handler, HandlerPcs
<1>2. handler' = [handler EXCEPT ![c] = [handler[c] EXCEPT !.pc = there]]
  BY DEF HandlerGoto
<1> QED
  BY <1>1, <1>2

\* A delivery that ends has no event.
LEMMA HandlerStops ==
  ASSUME handler \in [Deliveries -> Handler], NEW c \in Deliveries, HandlerEnds(c)
  PROVE  /\ handler' \in [Deliveries -> Handler]
         /\ handler'[c].pc = "idle" /\ handler'[c].event = NoEvent
         /\ \A d \in Deliveries \ {c} : handler'[d] = handler[d]
<1>1. NoDelivery \in Handler /\ NoDelivery.pc = "idle" /\ NoDelivery.event = NoEvent
  BY DEF NoDelivery, Handler
<1> QED
  BY <1>1 DEF HandlerEnds

\* The types and the invariant give what a delivery in progress works on.
LEMMA DeliveryFacts ==
  ASSUME EventInv, NEW c \in Deliveries
  PROVE  /\ WebhookTypeOK /\ DeliveryKnows(c) /\ handler \in [Deliveries -> Handler]
         /\ handler[c].pc \in HandlerPcs
         /\ handler[c].pc # "idle" => handler[c].event \in Events
         /\ \A e \in Events : /\ applied[e] \in Nat /\ applied[e] <= 1
                              /\ event[e] = "none" => applied[e] = 0 /\ e \notin acked
                              /\ event[e] = "none" => \A d \in Deliveries : ~Works(d, e)
                              /\ event[e] # "none" => Effective(e)
<1>1. WebhookTypeOK /\ DeliveryKnows(c) /\ handler \in [Deliveries -> Handler]
  BY DEF EventInv, WebhookTypeOK
<1>2. handler[c].pc \in HandlerPcs
  BY <1>1 DEF Handler, HandlerPcs
<1>3. handler[c].pc # "idle" => handler[c].event \in Events
  BY <1>1 DEF DeliveryKnows
<1>4. ASSUME NEW e \in Events
      PROVE  /\ applied[e] \in Nat /\ applied[e] <= 1
             /\ event[e] = "none" => applied[e] = 0 /\ e \notin acked
             /\ event[e] # "none" => Effective(e)
  BY DEF EventInv, WebhookTypeOK, AppliedOnce
<1>5. ASSUME NEW e \in Events, event[e] = "none", NEW d \in Deliveries PROVE ~Works(d, e)
  BY <1>5 DEF EventInv, WebhookTypeOK, HandlerAt, Works
<1> QED
  BY <1>1, <1>2, <1>3, <1>4, <1>5

\* The deliveries know nothing at first.
LEMMA EventInit ==
  ASSUME MailWebhookAssumption, WebhookInit
  PROVE  EventInv
<1>1. NoDelivery \in Handler /\ NoDelivery.pc = "idle" /\ NoDelivery.event = NoEvent
  BY DEF NoDelivery, Handler
<1>2. WebhookTypeOK
  BY <1>1 DEF WebhookInit, WebhookTypeOK, HandlerAt
<1>3. \A c \in Deliveries : DeliveryKnows(c)
  BY <1>1 DEF WebhookInit, MailWebhookAssumption, DeliveryKnows, Works
<1>4. \A e \in Events : event[e] = "none" /\ applied[e] = 0 /\ e \notin acked
  BY DEF WebhookInit
<1> QED
  BY <1>2, <1>3, <1>4 DEF EventInv, AppliedOnce

\* A delivery that begins, or finds its event's row.
LEMMA ArrivalKeeps ==
  ASSUME MailWebhookAssumption, EventInv, NEW c \in Deliveries,
         (\E e \in Events : Deliver(c, e)) \/ FindDuplicate(c)
  PROVE  EventInv'
<1>1. /\ event' = event /\ recorded' = recorded /\ job' = job /\ suppressed' = suppressed
      /\ applied' = applied /\ excused' = excused
  BY DEF Deliver, FindDuplicate
<1>2. /\ handler' \in [Deliveries -> Handler]
      /\ \A d \in Deliveries \ {c} : handler'[d] = handler[d]
      /\ \/ handler'[c].pc = "insert" /\ handler'[c].event \in Events
         \/ handler'[c].pc = "idle" /\ handler'[c].event \notin Events
      /\ handler[c].pc \in {"idle", "insert"}
      /\ acked' \subseteq Events
      /\ \A e \in acked' : e \in acked \/ event[e] # "none"
  <2>1. CASE \E e \in Events : Deliver(c, e)
    <3>1. PICK e \in Events : Deliver(c, e)
      BY <2>1
    <3>2. [pc |-> "insert", event |-> e] \in Handler
      BY DEF Handler
    <3>3. handler' = [handler EXCEPT ![c] = [pc |-> "insert", event |-> e]]
          /\ handler[c].pc = "idle" /\ acked' = acked
      BY <3>1 DEF Deliver, HandlerAt
    <3> QED
      BY <3>2, <3>3, DeliveryFacts DEF WebhookTypeOK
  <2>2. CASE FindDuplicate(c)
    <3>1. handler[c].pc = "insert" /\ HandlerEnds(c) /\ acked' = acked \union {handler[c].event}
          /\ event[handler[c].event] # "none"
      BY <2>2 DEF FindDuplicate, HandlerAt
    <3>2. handler[c].event \in Events
      BY <3>1, DeliveryFacts
    <3> QED
      BY <3>1, <3>2, HandlerStops, DeliveryFacts DEF WebhookTypeOK, MailWebhookAssumption
  <2> QED
    BY <2>1, <2>2
<1>3. \A d \in Deliveries : \A e : Works(d, e)' <=> Works(d, e)
  BY <1>2 DEF Works
<1>4. ASSUME NEW d \in Deliveries PROVE DeliveryKnows(d)'
  <2>1. DeliveryKnows(d)
    BY DEF EventInv
  <2>2. CASE d = c
    BY <1>2, <1>3, <2>2 DEF DeliveryKnows, Works
  <2>3. CASE d # c
    BY <1>1, <1>2, <1>3, <2>1, <2>3 DEF DeliveryKnows
  <2> QED
    BY <2>2, <2>3
<1>5. WebhookTypeOK'
  BY <1>1, <1>2, DeliveryFacts DEF WebhookTypeOK, HandlerAt
<1>6. \A e \in Events : Effective(e) => Effective(e)'
  BY <1>1, <1>3 DEF Effective
<1> QED
  BY <1>1, <1>2, <1>4, <1>5, <1>6 DEF EventInv, AppliedOnce

\* The first delivery of an event is alone with it.
LEMMA InsertKeeps ==
  ASSUME EventInv, NEW c \in Deliveries, InsertEvent(c)
  PROVE  EventInv'
<1> DEFINE e == handler[c].event
<1>1. /\ handler[c].pc = "insert" /\ event[e] = "none" /\ event' = [event EXCEPT ![e] = "stored"]
      /\ recorded' = recorded /\ job' = job /\ suppressed' = suppressed
      /\ applied' = applied /\ excused' = excused /\ acked' = acked
  BY DEF InsertEvent, HandlerAt
<1>2. /\ e \in Events /\ applied[e] = 0 /\ e \notin acked
      /\ \A d \in Deliveries : ~Works(d, e)
  BY <1>1, DeliveryFacts
<1>3. /\ handler' \in [Deliveries -> Handler]
      /\ handler'[c].pc \in {"suppress", "apply"} /\ handler'[c].event = e
      /\ \A d \in Deliveries \ {c} : handler'[d] = handler[d]
  <2>1. CASE e \in Bounces
    BY <2>1, HandlerMoves, DeliveryFacts DEF InsertEvent, HandlerPcs
  <2>2. CASE e \notin Bounces
    BY <2>2, HandlerMoves, DeliveryFacts DEF InsertEvent, HandlerPcs
  <2> QED
    BY <2>1, <2>2
<1>4. /\ event'[e] = "stored" /\ event' \in [Events -> {"none", "stored", "processed"}]
      /\ \A x \in Events \ {e} : event'[x] = event[x]
  BY <1>1, <1>2, DeliveryFacts DEF WebhookTypeOK
<1> HIDE DEF e
<1>5. /\ \A x : Works(c, x)' <=> x = e
      /\ \A x : ~Works(c, x)
      /\ \A d \in Deliveries \ {c} : \A x : Works(d, x)' <=> Works(d, x)
  BY <1>1, <1>3 DEF Works, e
<1>6. ASSUME NEW d \in Deliveries PROVE DeliveryKnows(d)'
  <2>1. DeliveryKnows(d)
    BY DEF EventInv
  <2>2. CASE d = c
    BY <1>1, <1>2, <1>3, <1>5, <2>2 DEF DeliveryKnows
  <2>3. CASE d # c
    BY <1>1, <1>2, <1>3, <1>5, <2>1, <2>3 DEF DeliveryKnows
  <2> QED
    BY <2>2, <2>3
<1>7. WebhookTypeOK'
  <2>1. \A d \in Deliveries :
          ~HandlerAt(d, "idle")' /\ ~HandlerAt(d, "insert")' => event'[handler'[d].event] # "none"
    <3> SUFFICES ASSUME NEW d \in Deliveries, handler'[d].pc # "idle", handler'[d].pc # "insert"
                 PROVE  event'[handler'[d].event] # "none"
      BY DEF HandlerAt
    <3>1. CASE d = c
      BY <1>3, <1>4, <3>1
    <3>2. CASE d # c
      <4>1. handler'[d] = handler[d] /\ handler[d].event \in Events
        BY <1>3, <3>2, DeliveryFacts
      <4>2. event[handler[d].event] # "none"
        BY <4>1, DeliveryFacts DEF WebhookTypeOK, HandlerAt
      <4> QED
        BY <1>4, <4>1, <4>2
    <3> QED
      BY <3>1, <3>2
  <2> QED
    BY <1>1, <1>3, <1>4, <2>1, DeliveryFacts DEF WebhookTypeOK
<1>8. ASSUME NEW x \in Events
      PROVE  IF event'[x] = "none" THEN applied'[x] = 0 /\ x \notin acked' ELSE Effective(x)'
  <2>1. CASE x = e
    BY <1>4, <1>5, <2>1 DEF Effective
  <2>2. CASE x # e
    <3>1. event'[x] = event[x]
      BY <1>4, <2>2
    <3>2. Effective(x) => Effective(x)'
      BY <1>1, <1>5 DEF Effective
    <3> QED
      BY <1>1, <3>1, <3>2, DeliveryFacts
  <2> QED
    BY <2>1, <2>2
<1> QED
  BY <1>1, <1>6, <1>7, <1>8 DEF EventInv, AppliedOnce

\* The recipient is suppressed before the job is updated.
LEMMA SuppressKeeps ==
  ASSUME EventInv, NEW c \in Deliveries, SuppressRecipient(c)
  PROVE  EventInv'
<1>1. /\ handler[c].pc = "suppress" /\ HandlerGoto(c, "apply") /\ suppressed' = TRUE
      /\ event' = event /\ recorded' = recorded /\ job' = job
      /\ applied' = applied /\ excused' = excused /\ acked' = acked
  BY DEF SuppressRecipient, HandlerAt
<1>2. /\ handler' \in [Deliveries -> Handler]
      /\ handler'[c].pc = "apply" /\ handler'[c].event = handler[c].event
      /\ \A d \in Deliveries \ {c} : handler'[d] = handler[d]
  BY <1>1, HandlerMoves, DeliveryFacts DEF HandlerPcs
<1>3. \A d \in Deliveries : \A x : Works(d, x)' <=> Works(d, x)
  BY <1>1, <1>2 DEF Works
<1>4. ASSUME NEW d \in Deliveries PROVE DeliveryKnows(d)'
  <2>1. DeliveryKnows(d)
    BY DEF EventInv
  <2>2. CASE d = c
    BY <1>1, <1>2, <1>3, <2>1, <2>2 DEF DeliveryKnows
  <2>3. CASE d # c
    BY <1>1, <1>2, <1>3, <2>1, <2>3 DEF DeliveryKnows
  <2> QED
    BY <2>2, <2>3
<1>5. WebhookTypeOK'
  <2>1. \A d \in Deliveries :
          ~HandlerAt(d, "idle")' /\ ~HandlerAt(d, "insert")' => event'[handler'[d].event] # "none"
    BY <1>1, <1>2, DeliveryFacts DEF WebhookTypeOK, HandlerAt
  <2> QED
    BY <1>1, <1>2, <2>1, DeliveryFacts DEF WebhookTypeOK
<1>6. \A x : Effective(x) => Effective(x)'
  BY <1>1, <1>3 DEF Effective
<1> QED
  BY <1>1, <1>4, <1>5, <1>6 DEF EventInv, AppliedOnce

\* The job is updated, if its row is found, by the one delivery that may.
LEMMA ApplyKeeps ==
  ASSUME EventInv, NEW c \in Deliveries, ApplyEvent(c)
  PROVE  EventInv'
<1> DEFINE e == handler[c].event
<1>1. /\ handler[c].pc = "apply" /\ HandlerGoto(c, "mark")
      /\ event' = event /\ recorded' = recorded /\ suppressed' = suppressed /\ acked' = acked
  BY DEF ApplyEvent, HandlerAt
<1>2. e \in Events /\ applied[e] = 0 /\ Works(c, e)
  BY <1>1, DeliveryFacts DEF DeliveryKnows, Works
<1>3. /\ handler' \in [Deliveries -> Handler]
      /\ handler'[c].pc = "mark" /\ handler'[c].event = e
      /\ \A d \in Deliveries \ {c} : handler'[d] = handler[d]
  BY <1>1, HandlerMoves, DeliveryFacts DEF HandlerPcs
<1>4. job' \in [dead: BOOLEAN, delivered: BOOLEAN]
  BY DeliveryFacts DEF ApplyEvent, WebhookTypeOK
<1>5. /\ applied' \in [Events -> Nat] /\ applied'[e] <= 1
      /\ \A x \in Events \ {e} : applied'[x] = applied[x]
      /\ excused \subseteq excused' /\ excused' \subseteq Events
      /\ applied'[e] > 0 \/ e \in excused'
  <2>1. CASE recorded
    <3>1. applied' = [applied EXCEPT ![e] = applied[e] + 1] /\ excused' = excused
      BY <2>1 DEF ApplyEvent
    <3> QED
      BY <1>2, <3>1, DeliveryFacts DEF WebhookTypeOK
  <2>2. CASE ~recorded
    BY <1>2, <2>2, DeliveryFacts DEF ApplyEvent, WebhookTypeOK
  <2> QED
    BY <2>1, <2>2
<1> HIDE DEF e
<1>6. \A d \in Deliveries : \A x : Works(d, x)' <=> Works(d, x)
  BY <1>1, <1>3 DEF Works, e
<1>7. ASSUME NEW d \in Deliveries PROVE DeliveryKnows(d)'
  <2>1. DeliveryKnows(d)
    BY DEF EventInv
  <2>2. CASE d = c
    BY <1>2, <1>3, <1>5, <1>6, <2>1, <2>2 DEF DeliveryKnows
  <2>3. CASE d # c
    <3>1. handler[d].pc \in {"suppress", "apply", "mark"} => handler[d].event \in Events \ {e}
      BY <1>2, <2>1, <2>3, DeliveryFacts DEF DeliveryKnows, Works
    <3>2. handler'[d] = handler[d]
      BY <1>3, <2>3
    <3> QED
      BY <1>5, <1>6, <2>1, <3>1, <3>2 DEF DeliveryKnows
  <2> QED
    BY <2>2, <2>3
<1>8. WebhookTypeOK'
  <2>1. \A d \in Deliveries :
          ~HandlerAt(d, "idle")' /\ ~HandlerAt(d, "insert")' => event'[handler'[d].event] # "none"
    BY <1>1, <1>3, DeliveryFacts DEF WebhookTypeOK, HandlerAt, e
  <2> QED
    BY <1>1, <1>3, <1>4, <1>5, <2>1, DeliveryFacts DEF WebhookTypeOK
<1>9. ASSUME NEW x \in Events
      PROVE  /\ applied'[x] <= 1
             /\ IF event'[x] = "none" THEN applied'[x] = 0 /\ x \notin acked' ELSE Effective(x)'
  <2>1. CASE x = e
    <3>1. event[e] # "none"
      BY <1>2, DeliveryFacts
    <3> QED
      BY <1>1, <1>5, <2>1, <3>1 DEF Effective
  <2>2. CASE x # e
    <3>1. applied'[x] = applied[x]
      BY <1>5, <2>2
    <3>2. Effective(x) => Effective(x)'
      BY <1>5, <1>6, <3>1 DEF Effective
    <3> QED
      BY <1>1, <3>1, <3>2, DeliveryFacts
  <2> QED
    BY <2>1, <2>2
<1> QED
  BY <1>7, <1>8, <1>9 DEF EventInv, AppliedOnce

\* A delivery that is done, or cut short, leaves its event with its effect, or excused.
LEMMA DoneKeeps ==
  ASSUME MailWebhookAssumption, EventInv, NEW c \in Deliveries, MarkProcessed(c) \/ DeliveryFails(c)
  PROVE  EventInv'
<1> DEFINE e == handler[c].event
<1>1. /\ handler[c].pc # "idle" /\ HandlerEnds(c)
      /\ recorded' = recorded /\ job' = job /\ suppressed' = suppressed /\ applied' = applied
  BY DEF MarkProcessed, DeliveryFails, HandlerAt
<1>2. e \in Events
  BY <1>1, DeliveryFacts
<1>3. /\ handler' \in [Deliveries -> Handler]
      /\ handler'[c].pc = "idle" /\ handler'[c].event \notin Events
      /\ \A d \in Deliveries \ {c} : handler'[d] = handler[d]
  BY <1>1, HandlerStops, DeliveryFacts DEF MailWebhookAssumption
<1>4. /\ event' \in [Events -> {"none", "stored", "processed"}]
      /\ acked' \subseteq Events
      /\ excused' \subseteq Events /\ excused \subseteq excused'
      /\ \A x \in Events : event'[x] = "none" <=> event[x] = "none"
      /\ \A x \in acked' : x \in acked \/ event[x] # "none"
      /\ Works(c, e) => applied[e] > 0 \/ e \in excused'
  <2>1. CASE MarkProcessed(c)
    <3>1. /\ handler[c].pc = "mark" /\ event' = [event EXCEPT ![e] = "processed"]
          /\ acked' = acked \union {e} /\ excused' = excused
      BY <2>1 DEF MarkProcessed, HandlerAt
    <3>2. event[e] # "none" /\ (applied[e] > 0 \/ e \in excused)
      <4>1. Works(c, e)
        BY <3>1 DEF Works
      <4> QED
        BY <1>2, <3>1, <4>1, DeliveryFacts DEF DeliveryKnows
    <3> QED
      BY <1>2, <3>1, <3>2, DeliveryFacts DEF WebhookTypeOK
  <2>2. CASE DeliveryFails(c)
    <3>1. /\ event' = event /\ acked' = acked
          /\ excused' = IF handler[c].pc = "insert" THEN excused ELSE excused \union {e}
      BY <2>2 DEF DeliveryFails, HandlerAt
    <3> QED
      BY <1>2, <3>1, DeliveryFacts DEF WebhookTypeOK, Works
  <2> QED
    BY <2>1, <2>2
<1> HIDE DEF e
<1>5. /\ \A x \in Events : ~Works(c, x)'
      /\ \A x \in Events : Works(c, x) => x = e
      /\ \A d \in Deliveries \ {c} : \A x : Works(d, x)' <=> Works(d, x)
  BY <1>3 DEF Works, e
<1>6. ASSUME NEW d \in Deliveries PROVE DeliveryKnows(d)'
  <2>1. DeliveryKnows(d)
    BY DEF EventInv
  <2>2. CASE d = c
    BY <1>3, <1>5, <2>2 DEF DeliveryKnows
  <2>3. CASE d # c
    BY <1>1, <1>3, <1>4, <1>5, <2>1, <2>3 DEF DeliveryKnows
  <2> QED
    BY <2>2, <2>3
<1>7. WebhookTypeOK'
  <2>1. \A d \in Deliveries :
          ~HandlerAt(d, "idle")' /\ ~HandlerAt(d, "insert")' => event'[handler'[d].event] # "none"
    <3> SUFFICES ASSUME NEW d \in Deliveries, handler'[d].pc # "idle", handler'[d].pc # "insert"
                 PROVE  event'[handler'[d].event] # "none"
      BY DEF HandlerAt
    <3>1. handler'[d] = handler[d] /\ handler[d].event \in Events
      BY <1>3, DeliveryFacts
    <3>2. event[handler[d].event] # "none"
      BY <3>1, DeliveryFacts DEF WebhookTypeOK, HandlerAt
    <3> QED
      BY <1>4, <3>1, <3>2
  <2> QED
    BY <1>1, <1>3, <1>4, <2>1, DeliveryFacts DEF WebhookTypeOK
<1>8. ASSUME NEW x \in Events
      PROVE  IF event'[x] = "none" THEN applied'[x] = 0 /\ x \notin acked' ELSE Effective(x)'
  <2>1. Effective(x) => Effective(x)'
    <3>1. CASE \E d \in Deliveries \ {c} : Works(d, x)
      BY <1>5, <3>1 DEF Effective
    <3>2. CASE Works(c, x)
      BY <1>1, <1>4, <1>5, <3>2 DEF Effective
    <3> QED
      BY <1>1, <1>4, <3>1, <3>2 DEF Effective
  <2> QED
    BY <1>1, <1>4, <2>1, DeliveryFacts
<1> QED
  BY <1>1, <1>6, <1>7, <1>8 DEF EventInv, AppliedOnce

\* What the worker records changes nothing that is known of the events.
LEMMA RecordKeeps ==
  ASSUME EventInv, WorkerRecords \/ UNCHANGED webhookVars
  PROVE  EventInv'
<1>1. /\ event' = event /\ job' = job /\ suppressed' = suppressed /\ handler' = handler
      /\ applied' = applied /\ excused' = excused /\ acked' = acked
      /\ recorded' \in {recorded, TRUE}
  BY DEF WorkerRecords, webhookVars
<1>2. WebhookTypeOK'
  BY <1>1 DEF EventInv, WebhookTypeOK, HandlerAt
<1>3. \A d \in Deliveries : \A x : Works(d, x)' <=> Works(d, x)
  BY <1>1 DEF Works
<1>4. \A c \in Deliveries : DeliveryKnows(c)'
  BY <1>1, <1>3 DEF EventInv, DeliveryKnows
<1>5. \A x : Effective(x)' <=> Effective(x)
  BY <1>1, <1>3 DEF Effective
<1> QED
  BY <1>1, <1>2, <1>4, <1>5 DEF EventInv, AppliedOnce

\* Every step keeps what is known of the events.
LEMMA EventStep ==
  ASSUME MailWebhookAssumption
  PROVE  EventInv /\ [WebhookNext]_webhookVars => EventInv'
BY ArrivalKeeps, InsertKeeps, SuppressKeeps, ApplyKeeps, DoneKeeps, RecordKeeps
DEF WebhookNext, Handle

\* The invariant of the events holds in every reachable state.
LEMMA EventInvariant ==
  ASSUME MailWebhookAssumption
  PROVE  WebhookSpec => []EventInv
<1>1. EventInv /\ [WebhookNext]_webhookVars => EventInv'
  BY EventStep
<1>2. WebhookInit => EventInv
  BY EventInit
<1> QED
  BY <1>1, <1>2, PTL DEF WebhookSpec

\* The rows and the deliveries keep their types, and a delivery that goes on after the
\* insert has the event's row (schema.prisma, model EmailProviderEvent).
THEOREM WebhookTypes ==
  ASSUME MailWebhookAssumption
  PROVE  WebhookSpec => []WebhookTypeOK
<1>1. EventInv => WebhookTypeOK
  BY DEF EventInv
<1> QED
  BY <1>1, EventInvariant, PTL

\* However often the provider repeats an event and whenever its deliveries fail, the event
\* changes the job at most once (mail.webhook.service.ts:56-92).
THEOREM EventsApplyOnce ==
  ASSUME MailWebhookAssumption
  PROVE  WebhookSpec => []AppliedOnce
<1>1. EventInv => AppliedOnce
  BY DEF EventInv
<1> QED
  BY <1>1, EventInvariant, PTL

\* An event that was acknowledged has changed the job, or a delivery is going to, unless
\* its delivery failed or came before the worker knew the message
\* (mail.webhook.service.ts:56-92).
THEOREM EventsTakeEffect ==
  ASSUME MailWebhookAssumption
  PROVE  WebhookSpec => []TakesEffect
<1>1. EventInv => TakesEffect
  <2> SUFFICES ASSUME EventInv, NEW e \in acked
               PROVE  \/ applied[e] > 0 \/ e \in excused
                      \/ \E c \in Deliveries : handler[c].event = e /\ ~HandlerAt(c, "insert")
    BY DEF TakesEffect
  <2>1. e \in Events /\ Effective(e)
    BY DEF EventInv, WebhookTypeOK
  <2> QED
    BY <2>1 DEF Effective, Works, HandlerAt
<1> QED
  BY <1>1, EventInvariant, PTL
=============================================================================
