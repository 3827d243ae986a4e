------------------------- MODULE UserSessionsProofs -------------------------
(* Proofs about UserSessions, for any number of connecting threads and any *)
(* ids that clients present.                                               *)
EXTENDS UserSessions, SequenceTheorems, TLAPS

IdInv == SessionTypeOK /\ NextIdIsFree /\ FreshIdsDistinct

\* The elements of a list that grows at its end.
LEMMA ToSetAppend ==
  ASSUME NEW S, NEW s \in Seq(S), NEW e \in S
  PROVE  /\ Append(s, e) \in Seq(S)
         /\ ToSet(Append(s, e)) = ToSet(s) \cup {e}
         /\ IsInjective(s) /\ e \notin ToSet(s) => IsInjective(Append(s, e))
<1>1. /\ Append(s, e) \in Seq(S) /\ Len(Append(s, e)) = Len(s) + 1 /\ Len(s) \in Nat
      /\ \A i \in 1..Len(s) : Append(s, e)[i] = s[i]
      /\ Append(s, e)[Len(s) + 1] = e
  BY AppendProperties, LenProperties
<1>2. DOMAIN s = 1..Len(s) /\ DOMAIN Append(s, e) = 1..(Len(s) + 1)
  BY <1>1, LenProperties
<1>3. DOMAIN Append(s, e) = DOMAIN s \cup {Len(s) + 1}
  BY <1>1, <1>2
<1>4. ToSet(Append(s, e)) = ToSet(s) \cup {e}
  BY <1>1, <1>2, <1>3 DEF ToSet
<1>5. ASSUME IsInjective(s), e \notin ToSet(s) PROVE IsInjective(Append(s, e))
  BY <1>1, <1>2, <1>3, <1>5 DEF ToSet, IsInjective
<1> QED
  BY <1>1, <1>4, <1>5

\* What is known as an id is a user id.
LEMMA KnownIds ==
  ASSUME SessionTypeOK
  PROVE  sessions \cup ToSet(users) \cup ToSet(log) \subseteq UserId
<1> HIDE DEF UserId
<1>1. users \in Seq(UserId) /\ log \in Seq(UserId) /\ sessions \subseteq UserId
  BY DEF SessionTypeOK
<1>2. ASSUME NEW s \in Seq(UserId) PROVE ToSet(s) \subseteq UserId
  BY ElementOfSeq, LenProperties DEF ToSet
<1> QED
  BY <1>1, <1>2

\* Nobody is connected at first.
LEMMA IdInit == SessionInit => IdInv
BY DEF SessionInit, IdInv, SessionTypeOK, NextIdIsFree, FreshIdsDistinct, UserId,
       IsInjective, ToSet

\* Every step keeps ids positive, behind next_id_ and, when drawn, different.
LEMMA IdStep == IdInv /\ [SessionNext]_sessionVars => IdInv'
<1> SUFFICES ASSUME IdInv, [SessionNext]_sessionVars PROVE IdInv'
  OBVIOUS
<1> USE DEF IdInv, UserId, Goto, Return
<1>1. ASSUME NEW t \in Thread, Draw(t) PROVE IdInv'
  <2>1. SessionTypeOK'
    BY <1>1 DEF Draw, SessionTypeOK
  <2>2. NextIdIsFree'
    <3>1. next_id' = next_id + 1 /\ next_id \in Nat
      BY <1>1 DEF Draw, SessionTypeOK
    <3>2. \A u \in sessions' \cup ToSet(users') \cup ToSet(log') : u < next_id'
      <4>1. \A u \in sessions \cup ToSet(users) \cup ToSet(log) : u < next_id /\ u \in Nat
        BY KnownIds DEF NextIdIsFree
      <4> QED
        BY <1>1, <3>1, <4>1 DEF Draw
    <3>3. \A s \in Thread : pc'[s] \in {"create", "log", "adopt"} => uid'[s] < next_id'
      BY <1>1, <3>1 DEF Draw, SessionTypeOK, NextIdIsFree
    <3> QED
      BY <3>2, <3>3 DEF NextIdIsFree
  <2>3. FreshIdsDistinct'
    BY <1>1 DEF Draw, SessionTypeOK, NextIdIsFree, FreshIdsDistinct
  <2> QED
    BY <2>1, <2>2, <2>3
<1>2. ASSUME NEW t \in Thread, Create(t) PROVE IdInv'
  <2>1. uid[t] \in UserId
    BY <1>2 DEF Create, SessionTypeOK
  <2>2. users' \in Seq(UserId) /\ ToSet(users') = ToSet(users) \cup {uid[t]}
    <3>1. users \in Seq(UserId) /\ users' = Append(users, uid[t])
      BY <1>2 DEF Create, SessionTypeOK
    <3> HIDE DEF UserId
    <3> QED
      BY <2>1, <3>1, ToSetAppend
  <2>3. SessionTypeOK'
    BY <1>2, <2>1, <2>2 DEF Create, SessionTypeOK
  <2>4. NextIdIsFree'
    BY <1>2, <2>2 DEF Create, SessionTypeOK, NextIdIsFree
  <2>5. FreshIdsDistinct'
    BY <1>2 DEF Create, SessionTypeOK, FreshIdsDistinct
  <2> QED
    BY <2>3, <2>4, <2>5
<1>3. ASSUME NEW t \in Thread, Log(t) PROVE IdInv'
  <2>1. uid[t] \in UserId /\ uid[t] < next_id /\ uid[t] \notin ToSet(log)
    BY <1>3 DEF Log, SessionTypeOK, NextIdIsFree, FreshIdsDistinct
  <2>2. /\ log' \in Seq(UserId) /\ ToSet(log') = ToSet(log) \cup {uid[t]}
        /\ IsInjective(log')
    <3>1. log \in Seq(UserId) /\ log' = Append(log, uid[t]) /\ IsInjective(log)
      BY <1>3 DEF Log, SessionTypeOK, FreshIdsDistinct
    <3> HIDE DEF UserId
    <3> QED
      BY <2>1, <3>1, ToSetAppend
  <2>3. SessionTypeOK'
    BY <1>3, <2>1, <2>2 DEF Log, SessionTypeOK
  <2>4. NextIdIsFree'
    BY <1>3, <2>1, <2>2 DEF Log, SessionTypeOK, NextIdIsFree
  <2>5. FreshIdsDistinct'
    BY <1>3, <2>2 DEF Log, SessionTypeOK, FreshIdsDistinct
  <2> QED
    BY <2>3, <2>4, <2>5
<1>4. ASSUME NEW t \in Thread, Load(t) PROVE IdInv'
  <2>1. SessionTypeOK'
    BY <1>4, SessionAssumption DEF Load, SessionTypeOK
  <2>2. NextIdIsFree'
    BY <1>4, SessionAssumption DEF Load, SessionTypeOK, NextIdIsFree
  <2>3. FreshIdsDistinct'
    BY <1>4 DEF Load, SessionTypeOK, FreshIdsDistinct
  <2> QED
    BY <2>1, <2>2, <2>3
<1>5. ASSUME NEW t \in Thread, Claim(t) PROVE IdInv'
  <2>1. next_id' = uid[t] + 1 /\ next_id <= uid[t] /\ uid[t] \in UserId
    BY <1>5 DEF Claim, SessionTypeOK
  <2>2. SessionTypeOK'
    BY <1>5, <2>1 DEF Claim, SessionTypeOK
  <2>3. NextIdIsFree'
    <3>1. next_id \in Nat
      BY DEF SessionTypeOK
    <3>2. \A u \in sessions' \cup ToSet(users') \cup ToSet(log') : u < next_id'
      <4>1. \A u \in sessions \cup ToSet(users) \cup ToSet(log) : u < next_id /\ u \in Nat
        BY KnownIds DEF NextIdIsFree
      <4> QED
        BY <1>5, <2>1, <3>1, <4>1 DEF Claim
    <3>3. \A s \in Thread : pc'[s] \in {"create", "log", "adopt"} => uid'[s] < next_id'
      BY <1>5, <2>1, <3>1 DEF Claim, SessionTypeOK, NextIdIsFree
    <3> QED
      BY <3>2, <3>3 DEF NextIdIsFree
  <2>4. FreshIdsDistinct'
    BY <1>5 DEF Claim, SessionTypeOK, FreshIdsDistinct
  <2> QED
    BY <2>2, <2>3, <2>4
<1>6. ASSUME NEW t \in Thread, Retry(t) PROVE IdInv'
  <2>1. SessionTypeOK'
    BY <1>6 DEF Retry, SessionTypeOK
  <2>2. NextIdIsFree'
    BY <1>6 DEF Retry, SessionTypeOK, NextIdIsFree
  <2>3. FreshIdsDistinct'
    BY <1>6 DEF Retry, SessionTypeOK, FreshIdsDistinct
  <2> QED
    BY <2>1, <2>2, <2>3
<1>7. ASSUME NEW t \in Thread, Adopt(t) PROVE IdInv'
  <2>1. uid[t] \in UserId /\ uid[t] < next_id
    BY <1>7 DEF Adopt, SessionTypeOK, NextIdIsFree
  <2>2. users' \in Seq(UserId) /\ ToSet(users') \subseteq ToSet(users) \cup {uid[t]}
    <3>1. users \in Seq(UserId) /\ (users' = users \/ users' = Append(users, uid[t]))
      BY <1>7 DEF Adopt, Listed, SessionTypeOK
    <3> HIDE DEF UserId
    <3>2. CASE users' = users
      BY <3>1, <3>2
    <3>3. CASE users' = Append(users, uid[t])
      BY <2>1, <3>1, <3>3, ToSetAppend
    <3> QED
      BY <3>1, <3>2, <3>3
  <2>3. SessionTypeOK'
    <3>1. positions' \in [DOMAIN positions' -> Nat] /\ DOMAIN positions' \subseteq UserId
      BY <1>7, <2>1 DEF Adopt, Kept, SessionTypeOK
    <3>2. sessions' \subseteq UserId /\ next_id' = next_id /\ log' = log
      BY <1>7, <2>1 DEF Adopt, SessionTypeOK
    <3>3. /\ pc' = [pc EXCEPT ![t] = "idle"]
          /\ uid' = [uid EXCEPT ![t] = 0]
          /\ expected' = [expected EXCEPT ![t] = 0]
      BY <1>7 DEF Adopt
    <3> QED
      BY <2>2, <3>1, <3>2, <3>3 DEF SessionTypeOK
  <2>4. NextIdIsFree'
    <3>1. \A u \in sessions' \cup ToSet(users') \cup ToSet(log') : u < next_id'
      BY <1>7, <2>1, <2>2 DEF Adopt, NextIdIsFree
    <3>2. \A s \in Thread : pc'[s] \in {"create", "log", "adopt"} => uid'[s] < next_id'
      BY <1>7, <2>1 DEF Adopt, SessionTypeOK, NextIdIsFree
    <3> QED
      BY <3>1, <3>2 DEF NextIdIsFree
  <2>5. FreshIdsDistinct'
    BY <1>7 DEF Adopt, SessionTypeOK, FreshIdsDistinct
  <2> QED
    BY <2>3, <2>4, <2>5
<1>8. ASSUME NEW u \in sessions \cup (1..MaxId), Trade(u) PROVE IdInv'
  <2>1. u \in UserId
    BY SessionAssumption DEF SessionTypeOK
  <2>2. positions' \in [DOMAIN positions' -> Nat] /\ DOMAIN positions' \subseteq UserId
    <3>1. Shown(u) + 1 \in Nat
      BY DEF Shown, SessionTypeOK
    <3> QED
      BY <1>8, <2>1, <3>1 DEF Trade, SessionTypeOK
  <2>3. UNCHANGED <<next_id, users, log, sessions, pc, uid, expected>>
    BY <1>8 DEF Trade
  <2>4. SessionTypeOK'
    BY <2>2, <2>3 DEF SessionTypeOK
  <2>5. NextIdIsFree' /\ FreshIdsDistinct'
    BY <2>3 DEF NextIdIsFree, FreshIdsDistinct
  <2> QED
    BY <2>4, <2>5
<1>9. ASSUME UNCHANGED sessionVars PROVE IdInv'
  BY <1>9 DEF sessionVars, SessionTypeOK, NextIdIsFree, FreshIdsDistinct
<1> QED
  BY <1>1, <1>2, <1>3, <1>4, <1>5, <1>6, <1>7, <1>8, <1>9 DEF SessionNext, ThreadStep

\* The three together are inductive: that a drawn id is new needs every known
\* id behind next_id_, and that next_id_ passes a claimed id needs expected.
THEOREM IdInvariant == SessionSpec => []IdInv
  BY IdInit, IdStep, PTL DEF SessionSpec

\* No client is ever connected as user 0 or as a negative one.
THEOREM SessionTypes == SessionSpec => []SessionTypeOK
<1>1. IdInv => SessionTypeOK
  BY DEF IdInv
<1> QED
  BY <1>1, IdInvariant, PTL

\* Whatever ids clients reclaim, the next id drawn is nobody's.
THEOREM DrawnIdsAreNew == SessionSpec => []NextIdIsFree
<1>1. IdInv => NextIdIsFree
  BY DEF IdInv
<1> QED
  BY <1>1, IdInvariant, PTL

\* next_user_id gives no id twice.
THEOREM NoIdTwice == SessionSpec => []FreshIdsDistinct
<1>1. IdInv => FreshIdsDistinct
  BY DEF IdInv
<1> QED
  BY <1>1, IdInvariant, PTL

\* next_id_ never goes back: a claim writes it only where it still is what the
\* thread compared its id with.
THEOREM NextIdGrows == SessionSpec => NextIdMonotone
<1>1. IdInv /\ [SessionNext]_sessionVars => [next_id' >= next_id]_sessionVars
  <2> SUFFICES ASSUME IdInv, SessionNext PROVE next_id' >= next_id
    BY DEF sessionVars
  <2>1. next_id \in Nat
    BY DEF IdInv, SessionTypeOK, UserId
  <2>2. ASSUME NEW t \in Thread, ThreadStep(t) PROVE next_id' >= next_id
    <3>1. CASE Draw(t)
      BY <2>1, <3>1 DEF Draw
    <3>2. CASE Claim(t)
      BY <2>1, <3>2 DEF Claim, IdInv, SessionTypeOK
    <3>3. CASE Create(t) \/ Log(t) \/ Load(t) \/ Retry(t) \/ Adopt(t)
      BY <2>1, <3>3 DEF Create, Log, Load, Retry, Adopt
    <3> QED
      BY <2>2, <3>1, <3>2, <3>3 DEF ThreadStep
  <2>3. ASSUME NEW u \in sessions \cup (1..MaxId), Trade(u) PROVE next_id' >= next_id
    BY <2>1, <2>3 DEF Trade
  <2> QED
    BY <2>2, <2>3 DEF SessionNext
<1> QED
  BY <1>1, IdInvariant, PTL DEF SessionSpec, NextIdMonotone

-----------------------------------------------------------------------------
(* Positions. Only next_user_id resets one, and the id it runs with is not *)
(* logged; it is nobody's session, unless a client brought it along.       *)

\* Where the id of a session, or one that is being claimed, comes from.
KeptInv ==
  /\ sessions \subseteq ToSet(log) \cup StoredId
  /\ \A t \in Thread : pc[t] \in {"claim", "adopt"} => uid[t] \in sessions \cup StoredId

\* Every step keeps the ids of sessions logged or stored.
LEMMA KeptStep == IdInv /\ KeptInv /\ [SessionNext]_sessionVars => KeptInv'
<1> SUFFICES ASSUME IdInv, KeptInv, [SessionNext]_sessionVars PROVE KeptInv'
  OBVIOUS
<1> USE DEF IdInv, UserId, Goto, Return
<1>1. ASSUME NEW t \in Thread, Draw(t) PROVE KeptInv'
  BY <1>1 DEF Draw, KeptInv, SessionTypeOK
<1>2. ASSUME NEW t \in Thread, Create(t) PROVE KeptInv'
  BY <1>2 DEF Create, KeptInv, SessionTypeOK
<1>3. ASSUME NEW t \in Thread, Log(t) PROVE KeptInv'
  <2>1. ToSet(log') = ToSet(log) \cup {uid[t]}
    <3>1. log \in Seq(UserId) /\ log' = Append(log, uid[t]) /\ uid[t] \in UserId
      BY <1>3 DEF Log, SessionTypeOK
    <3> HIDE DEF UserId
    <3> QED
      BY <3>1, ToSetAppend
  <2> QED
    BY <1>3, <2>1 DEF Log, KeptInv, SessionTypeOK
<1>4. ASSUME NEW t \in Thread, Load(t) PROVE KeptInv'
  BY <1>4 DEF Load, KeptInv, SessionTypeOK
<1>5. ASSUME NEW t \in Thread, Claim(t) PROVE KeptInv'
  BY <1>5 DEF Claim, KeptInv, SessionTypeOK
<1>6. ASSUME NEW t \in Thread, Retry(t) PROVE KeptInv'
  BY <1>6 DEF Retry, KeptInv, SessionTypeOK
<1>7. ASSUME NEW t \in Thread, Adopt(t) PROVE KeptInv'
  BY <1>7 DEF Adopt, KeptInv, SessionTypeOK
<1>8. ASSUME NEW u \in sessions \cup (1..MaxId), Trade(u) PROVE KeptInv'
  BY <1>8 DEF Trade, KeptInv
<1>9. ASSUME UNCHANGED sessionVars PROVE KeptInv'
  BY <1>9 DEF sessionVars, KeptInv
<1> QED
  BY <1>1, <1>2, <1>3, <1>4, <1>5, <1>6, <1>7, <1>8, <1>9 DEF SessionNext, ThreadStep

\* A position that a user of a logged id, or of a session, has traded stays, for
\* any number of threads that connect users at once and any ids that trade: the
\* reset of next_user_id meets only an id nobody had, or a stored one.
THEOREM PositionsKept == SessionSpec => PositionKept
<1>1. SessionInit => KeptInv
  BY DEF SessionInit, KeptInv
<1>2. IdInv /\ KeptInv /\ [SessionNext]_sessionVars =>
        [\A u \in DOMAIN positions :
           /\ u \in DOMAIN positions'
           /\ positions'[u] < positions[u] =>
                u \notin ToSet(log) \cup (sessions \ StoredId)]_sessionVars
  <2> SUFFICES ASSUME IdInv, KeptInv, SessionNext, NEW u \in DOMAIN positions
               PROVE  /\ u \in DOMAIN positions'
                      /\ positions'[u] < positions[u] =>
                           u \notin ToSet(log) \cup (sessions \ StoredId)
    BY DEF sessionVars
  <2> DEFINE Keeps == u \in DOMAIN positions' /\ positions'[u] >= positions[u]
             Lost  == u \in DOMAIN positions' /\ u \notin ToSet(log) \cup (sessions \ StoredId)
  <2> SUFFICES Lost \/ (Keeps /\ positions'[u] \in Nat)
    <3>1. positions[u] \in Nat
      BY DEF IdInv, SessionTypeOK
    <3> QED
      BY <3>1
  <2>1. positions[u] \in Nat
    BY DEF IdInv, SessionTypeOK
  <2>2. ASSUME NEW t \in Thread, ThreadStep(t) PROVE Lost \/ (Keeps /\ positions'[u] \in Nat)
    <3>1. CASE Create(t)
      <4>1. u = uid[t] => u \notin ToSet(log)
        BY <3>1 DEF Create, IdInv, FreshIdsDistinct
      <4>2. u = uid[t] => Lost
        BY <3>1, <4>1 DEF Create, KeptInv
      <4> QED
        BY <2>1, <3>1, <4>2 DEF Create
    <3>2. CASE Adopt(t)
      BY <2>1, <3>2 DEF Adopt, Kept
    <3>3. CASE Draw(t) \/ Log(t) \/ Load(t) \/ Claim(t) \/ Retry(t)
      BY <2>1, <3>3 DEF Draw, Log, Load, Claim, Retry
    <3> QED
      BY <2>2, <3>1, <3>2, <3>3 DEF ThreadStep
  <2>3. ASSUME NEW v \in sessions \cup (1..MaxId), Trade(v)
        PROVE  Lost \/ (Keeps /\ positions'[u] \in Nat)
    BY <2>1, <2>3 DEF Trade, Shown
  <2> QED
    BY <2>2, <2>3 DEF SessionNext
<1> QED
  BY <1>1, <1>2, KeptStep, IdInvariant, PTL DEF SessionSpec, PositionKept

=============================================================================
