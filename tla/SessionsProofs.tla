----------------------------- MODULE SessionsProofs -----------------------------
(***************************************************************************)
(* Proofs about the session table of auth-service, for any number of       *)
(* requests, codes, refreshes and crashes: how many sessions are left,     *)
(* which of them a QR code made, and that a revocation is final.           *)
(***************************************************************************)
EXTENDS Sessions, FiniteSetTheorems, SequenceTheorems, TLAPS

\* What a request asks for, and the pairings of a code.
Asks == {Login} \union [kind: {"pair"}, code: Codes, by: Requests]
Pairings(c) == {p \in Requests : asked[p] # Login /\ asked[p].code = c}

SessionsTypeOK ==
  /\ byAge \in Seq(Requests) /\ IsInjective(byAge)
  /\ revoked \subseteq Requests /\ rotating \subseteq Requests
  /\ code \in [Codes -> {"none", "pending", "late", "expired", "approved"}]
  /\ linked \in [Codes -> Requests \union {NoSession}]
  /\ at \in [Requests -> {"new", "list", "revoke", "read", "write", "drop",
                          "done", "refused", "dead"}]
  /\ asked \in [Requests -> Asks]
  /\ todo \in [Requests -> Seq(Requests)]
  /\ faults \in Nat

\* A request that has not begun has no session, and finitely many have begun.
Begun == {p \in Requests : at[p] # "new"}
BegunSound ==
  /\ IsFiniteSet(Begun)
  /\ Active \subseteq Begun
  /\ \A p \in Requests : at[p] = "new" => asked[p] = Login
  /\ \A p \in Requests : at[p] \in {"read", "write", "drop", "refused"} => asked[p] # Login
  /\ \A p \in Requests : at[p] = "refused" => p \notin Active
  /\ \A p \in Requests : at[p] = "revoke" => todo[p] # << >>
  /\ \A p \in Requests : at[p] = "dead" => faults > 0
  /\ \A p \in Requests : asked[p] # Login => at[asked[p].by] # "new"

-------------------------------------------------------------------------------
(* The cap.                                                                *)

Limit == IF Cap < 2 THEN 2 ELSE Cap

\* Requests that have created a session and not yet listed the others, and
\* requests that have listed them and are revoking.
Unlisted == {p \in Requests : at[p] \in {"list", "read", "write", "drop"}}
Revoking == {p \in Requests : at[p] = "revoke"}

\* What stays active when those of X die and the other requests have come to
\* their end, but for the sessions of requests that have not listed yet.
Left(X) == (Active \ UNION {ToSet(todo[q]) : q \in Revoking \ X}) \ Unlisted

\* Every request that dies leaves one session more than it should, at most.
CapSound ==
  \A X \in SUBSET Revoking : Cardinality(Left(X)) <= Limit + faults + Cardinality(X)

-------------------------------------------------------------------------------
(* The sessions of a code.                                                 *)

\* The code names p, or a pairing q that has still to revoke p, or died before.
Settled(p, q) ==
  /\ q \in Requests
  /\ \/ q = p
     \/ at[q] = "list"
     \/ at[q] = "revoke" /\ p \in ToSet(todo[q])
     \/ at[q] = "dead"

\* An approver whom the code itself let in finds the code approved.
CodeSound ==
  \A c \in Codes :
    /\ code[c] = "approved" => linked[c] \in Pairings(c)
    /\ \A p \in Pairings(c) :
         /\ asked[p].by \in Pairings(c) =>
              code[c] = "approved" /\ at[p] \in {"read", "drop", "refused", "dead"}
         /\ p \in Active /\ at[p] \in {"list", "revoke", "done"} =>
              code[c] = "approved" /\ Settled(p, linked[c])

SessionsInv == SessionsTypeOK /\ BegunSound /\ CapSound /\ CodeSound

-------------------------------------------------------------------------------
(* Sequences without repetition.                                           *)

LEMMA UpTo ==
  ASSUME NEW n \in Nat
  PROVE  IsFiniteSet(1 .. n) /\ Cardinality(1 .. n) = n
  BY FS_Interval

LEMMA Positions ==
  ASSUME NEW S, NEW s \in Seq(S), IsInjective(s)
  PROVE  IsFiniteSet(ToSet(s)) /\ Cardinality(ToSet(s)) = Len(s)
  <1>1. s \in Surjection(1 .. Len(s), ToSet(s))
    BY DEF Surjection, ToSet
  <1>2. s \in Injection(1 .. Len(s), ToSet(s))
    BY DEF Injection, IsInjective, ToSet
  <1>3. IsFiniteSet(1 .. Len(s)) /\ Cardinality(1 .. Len(s)) = Len(s)
    <2>1. Len(s) \in Nat
      BY LenProperties
    <2> QED
      BY <2>1, UpTo
  <1> QED
    BY <1>1, <1>2, <1>3, FS_Surjection

LEMMA Permuted ==
  ASSUME NEW S, IsFiniteSet(S), NEW t \in SetToSeqs(S)
  PROVE  t \in Seq(S) /\ IsInjective(t) /\ ToSet(t) = S
  <1> DEFINE n == Cardinality(S)
  <1>1. n \in Nat
    BY FS_CardinalityType
  <1>2. t \in [1 .. n -> S] /\ \A i, j \in 1 .. n : i # j => t[i] # t[j]
    BY DEF SetToSeqs
  <1>3. t \in Injection(1 .. n, S)
    BY <1>2 DEF Injection, IsInjective
  <1>4. Cardinality(1 .. n) = n
    BY <1>1, FS_Interval
  <1>5. t \in Surjection(1 .. n, S)
    BY <1>3, <1>4, FS_Injection
  <1>6. ToSet(t) = S
    BY <1>2, <1>5 DEF Surjection, ToSet
  <1> QED
    BY <1>1, <1>2, <1>6 DEF IsInjective

LEMMA Appended ==
  ASSUME NEW S, NEW s \in Seq(S), IsInjective(s), NEW x \in S, x \notin ToSet(s)
  PROVE  /\ Append(s, x) \in Seq(S) /\ IsInjective(Append(s, x))
         /\ ToSet(Append(s, x)) = ToSet(s) \union {x}
  <1> DEFINE a == Append(s, x)
  <1>1. /\ a \in Seq(S) /\ DOMAIN a = 1 .. Len(s) + 1 /\ DOMAIN s = 1 .. Len(s) /\ Len(s) \in Nat
        /\ a[Len(s) + 1] = x
        /\ \A i \in 1 .. Len(s) : a[i] = s[i]
    BY AppendProperties
  <1> HIDE DEF a
  <1>2. \A i \in 1 .. Len(s) : s[i] # x
    BY <1>1 DEF ToSet
  <1>3. IsInjective(a)
    BY <1>1, <1>2 DEF IsInjective
  <1>4. ToSet(a) = ToSet(s) \union {x}
    BY <1>1 DEF ToSet
  <1> QED
    BY <1>1, <1>3, <1>4 DEF a

LEMMA HeadAndRest ==
  ASSUME NEW S, NEW s \in Seq(S), s # << >>
  PROVE  /\ Head(s) \in S /\ Tail(s) \in Seq(S)
         /\ ToSet(s) = {Head(s)} \union ToSet(Tail(s))
         /\ ToSet(<< >>) = {}
  <1>1. /\ Head(s) \in S /\ Tail(s) \in Seq(S) /\ Len(s) \in Nat \ {0} /\ Head(s) = s[1]
        /\ Len(Tail(s)) = Len(s) - 1
        /\ \A i \in 1 .. Len(Tail(s)) : Tail(s)[i] = s[i + 1]
    BY HeadTailProperties, EmptySeq
  <1>2. ASSUME NEW x \in ToSet(s) PROVE x \in {Head(s)} \union ToSet(Tail(s))
    <2>1. PICK i \in 1 .. Len(s) : x = s[i]
      BY DEF ToSet
    <2>2. CASE i = 1
      BY <1>1, <2>1, <2>2
    <2>3. CASE i # 1
      <3>1. i - 1 \in 1 .. Len(Tail(s)) /\ Tail(s)[i - 1] = x
        BY <1>1, <2>1, <2>3
      <3>2. DOMAIN Tail(s) = 1 .. Len(Tail(s))
        BY <1>1, LenProperties
      <3> QED
        BY <3>1, <3>2 DEF ToSet
    <2> QED
      BY <2>2, <2>3
  <1>3. {Head(s)} \union ToSet(Tail(s)) \subseteq ToSet(s)
    BY <1>1 DEF ToSet
  <1>4. ToSet(<< >>) = {}
    BY DEF ToSet
  <1> QED
    BY <1>1, <1>2, <1>3, <1>4

\* The last k elements are k at most.
LEMMA LastOnes ==
  ASSUME NEW S, NEW s \in Seq(S), NEW k \in Nat, k <= Len(s)
  PROVE  LET t == SubSeq(s, 1, Len(s) - k) IN
         /\ t \in Seq(S)
         /\ IsFiniteSet(ToSet(s) \ ToSet(t)) /\ Cardinality(ToSet(s) \ ToSet(t)) <= k
  <1> DEFINE n == Len(s)
             t == SubSeq(s, 1, n - k)
             I == n - k + 1 .. n
             f == [i \in I |-> s[i]]
             T == {s[i] : i \in I}
  <1>1. n \in Nat /\ \A i \in 1 .. n : s[i] \in S
    OBVIOUS
  <1>2. t \in Seq(S) /\ DOMAIN t = 1 .. n - k /\ \A i \in 1 .. n - k : t[i] = s[i]
    <2>1. 1 \in 1 .. n + 1 /\ n - k \in 0 .. n /\ n - k \in Int
      BY <1>1
    <2>2. /\ t \in Seq(S) /\ Len(t) = (IF 1 <= n - k THEN (n - k) - 1 + 1 ELSE 0)
          /\ \A i \in 1 .. (n - k) - 1 + 1 : t[i] = s[1 + i - 1]
      BY <2>1, SubSeqProperties
    <2>3. Len(t) = n - k
      BY <1>1, <2>1, <2>2
    <2>4. DOMAIN t = 1 .. n - k
      BY <2>2, <2>3, LenProperties
    <2>5. \A i \in 1 .. n - k : t[i] = s[i]
      BY <1>1, <2>1, <2>2
    <2> QED
      BY <2>2, <2>4, <2>5
  <1>3. IsFiniteSet(I) /\ Cardinality(I) = k
    BY <1>1, FS_Interval
  <1>4. f \in Surjection(I, T)
    BY DEF Surjection
  <1>5. IsFiniteSet(T) /\ Cardinality(T) <= k
    BY <1>3, <1>4, FS_Surjection
  <1>6. ToSet(s) \ ToSet(t) \subseteq T
    <2> SUFFICES ASSUME NEW x \in ToSet(s), x \notin ToSet(t) PROVE x \in T
      OBVIOUS
    <2>1. PICK i \in 1 .. n : x = s[i]
      BY DEF ToSet
    <2>2. i \notin 1 .. n - k
      BY <1>2, <2>1 DEF ToSet
    <2>3. i \in I
      BY <1>1, <2>2
    <2> QED
      BY <2>1, <2>3
  <1>7. Cardinality(T) \in Nat /\ Cardinality(ToSet(s) \ ToSet(t)) \in Nat
    BY <1>5, <1>6, FS_Subset, FS_CardinalityType
  <1> QED
    BY <1>2, <1>5, <1>6, <1>7, FS_Subset

\* What stays without the sessions of S: place numbers what is kept.
LEMMA Remaining ==
  ASSUME SessionsTypeOK, NEW S
  PROVE  /\ Without(S) \in Seq(Requests) /\ IsInjective(Without(S))
         /\ ToSet(Without(S)) = Active \ S
  <1> DEFINE kept == {i \in DOMAIN byAge : byAge[i] \notin S}
             place == [i \in kept |-> Cardinality({j \in kept : j <= i})]
             n == Cardinality(kept)
             at1 == [k \in 1 .. n |-> CHOOSE i \in kept : place[i] = k]
  <1>1. /\ byAge \in Seq(Requests) /\ Len(byAge) \in Nat /\ DOMAIN byAge = 1 .. Len(byAge)
        /\ \A i \in 1 .. Len(byAge) : byAge[i] \in Requests
    BY DEF SessionsTypeOK
  <1>2. kept \subseteq Nat /\ IsFiniteSet(kept) /\ n \in Nat
    <2>1. kept \in SUBSET (1 .. Len(byAge)) /\ kept \subseteq Nat
      BY <1>1
    <2>2. IsFiniteSet(1 .. Len(byAge))
      BY <1>1, UpTo
    <2>3. IsFiniteSet(kept)
      BY <2>1, <2>2, FS_Subset
    <2> QED
      BY <2>1, <2>3, FS_CardinalityType
  <1>3. ASSUME NEW i \in kept
        PROVE  place[i] \in 1 .. n
    <2> DEFINE L == {j \in kept : j <= i}
    <2>1. L \in SUBSET kept /\ i \in L
      BY <1>2
    <2>2. IsFiniteSet(L) /\ Cardinality(L) <= n /\ Cardinality(L) \in Nat
      BY <1>2, <2>1, FS_Subset, FS_CardinalityType
    <2>3. Cardinality(L) # 0
      BY <2>1, <2>2, FS_EmptySet
    <2> QED
      BY <1>2, <2>2, <2>3
  <1>4. ASSUME NEW i \in kept, NEW j \in kept, i < j
        PROVE  place[i] # place[j]
    <2> DEFINE L == {h \in kept : h <= i}
               M == {h \in kept : h <= j}
    <2>1. L \in SUBSET M /\ j \in M /\ j \notin L /\ M \in SUBSET kept
      BY <1>2, <1>4
    <2>2. IsFiniteSet(M)
      BY <1>2, <2>1, FS_Subset
    <2>3. Cardinality(L) # Cardinality(M)
      BY <2>1, <2>2, FS_Subset
    <2> QED
      BY <2>3
  <1>5. place \in Injection(kept, 1 .. n)
    <2>1. \A i, j \in kept : place[i] = place[j] => i = j
      BY <1>2, <1>4
    <2> QED
      BY <1>3, <2>1 DEF Injection, IsInjective
  <1>6. IsFiniteSet(1 .. n) /\ Cardinality(1 .. n) = n
    BY <1>2, UpTo
  <1>7. place \in Surjection(kept, 1 .. n)
    BY <1>5, <1>6, FS_Injection
  <1> HIDE DEF place
  <1>8. ASSUME NEW k \in 1 .. n
        PROVE  at1[k] \in kept /\ place[at1[k]] = k
    <2>1. \E i \in kept : place[i] = k
      BY <1>7 DEF Surjection
    <2> QED
      BY <2>1
  <1>9. ASSUME NEW i \in kept
        PROVE  place[i] \in 1 .. n /\ at1[place[i]] = i
    <2>1. place[i] \in 1 .. n
      BY <1>5 DEF Injection
    <2> QED
      BY <1>5, <1>8, <2>1 DEF Injection, IsInjective
  <1>10. Without(S) = [k \in 1 .. n |-> byAge[at1[k]]]
    BY DEF Without, place
  <1> HIDE DEF at1, n
  <1>11. Without(S) \in Seq(Requests)
    BY <1>1, <1>2, <1>8, <1>10
  <1>12. IsInjective(Without(S))
    <2> SUFFICES ASSUME NEW k \in 1 .. n, NEW l \in 1 .. n, byAge[at1[k]] = byAge[at1[l]]
                 PROVE  k = l
      BY <1>10 DEF IsInjective
    <2>1. at1[k] = at1[l]
      BY <1>1, <1>8 DEF SessionsTypeOK, IsInjective
    <2> QED
      BY <1>8, <2>1
  <1>13. ToSet(Without(S)) = {byAge[i] : i \in kept}
    BY <1>8, <1>9, <1>10 DEF ToSet
  <1>14. {byAge[i] : i \in kept} = Active \ S
    BY DEF Active, ToSet
  <1> QED
    BY <1>11, <1>12, <1>13, <1>14

-------------------------------------------------------------------------------
(* What the calls do to the rows.                                          *)

LEMMA InitialRows ==
  ASSUME Init
  PROVE  SessionsInv
  <1>1. byAge = << >> /\ Active = {}
    BY DEF Init, Active, ToSet
  <1>2. SessionsTypeOK
    <2>1. IsInjective(byAge) /\ byAge \in Seq(Requests) /\ << >> \in Seq(Requests)
      BY <1>1 DEF IsInjective
    <2>2. Login \in Asks
      BY DEF Asks
    <2> QED
      BY <2>1, <2>2 DEF Init, SessionsTypeOK
  <1>3. BegunSound
    <2>1. Begun = {}
      BY DEF Init, Begun
    <2> QED
      BY <1>1, <2>1, FS_EmptySet DEF Init, BegunSound
  <1>4. CapSound
    <2>1. Revoking = {} /\ \A X : Left(X) = {}
      BY <1>1 DEF Init, Revoking, Left
    <2>2. Limit \in Nat /\ faults = 0
      BY CapAssumption DEF Init, Limit
    <2>3. Cardinality({}) = 0
      BY FS_EmptySet
    <2> SUFFICES ASSUME NEW X \in SUBSET {} PROVE Cardinality(Left(X)) <= Limit + faults + Cardinality(X)
      BY <2>1 DEF CapSound
    <2>4. X = {} /\ Left(X) = {}
      BY <2>1
    <2> QED
      BY <2>2, <2>3, <2>4
  <1>5. CodeSound
    BY DEF Init, CodeSound, Pairings
  <1> QED
    BY <1>2, <1>3, <1>4, <1>5 DEF SessionsInv

LEMMA Created ==
  ASSUME SessionsTypeOK, BegunSound, NEW p \in Requests, at[p] = "new", CreateSession(p)
  PROVE  /\ byAge' \in Seq(Requests) /\ IsInjective(byAge')
         /\ Active' = Active \union {p} /\ p \notin Active
  <1>1. p \notin Active
    BY DEF BegunSound, Begun
  <1> QED
    BY <1>1, Appended DEF SessionsTypeOK, CreateSession, Active

LEMMA Revoked ==
  ASSUME SessionsTypeOK, NEW S \in SUBSET Requests, Revoke(S)
  PROVE  /\ byAge' \in Seq(Requests) /\ IsInjective(byAge') /\ revoked' \subseteq Requests
         /\ Active' = Active \ S
  <1>1. byAge' = Without(S) /\ revoked' = revoked \union S /\ revoked \subseteq Requests
    BY DEF Revoke, SessionsTypeOK
  <1>2. ToSet(Without(S)) = Active \ S
    BY Remaining
  <1>3. Active' = ToSet(byAge')
    BY DEF Active
  <1> QED
    BY <1>1, <1>2, <1>3, Remaining

LEMMA ActiveRequests ==
  ASSUME SessionsTypeOK
  PROVE  Active \subseteq Requests /\ IsFiniteSet(Active) /\ Cardinality(Active) = Len(byAge)
  <1>1. Active = ToSet(byAge) /\ byAge \in Seq(Requests) /\ IsInjective(byAge)
    BY DEF Active, SessionsTypeOK
  <1>2. ToSet(byAge) \subseteq Requests
    BY <1>1 DEF ToSet
  <1> QED
    BY <1>1, <1>2, Positions

\* Whatever is in Left is counted there.
LEMMA Fewer ==
  ASSUME SessionsTypeOK, NEW X, NEW Y, Y \subseteq Left(X)
  PROVE  /\ IsFiniteSet(Y) /\ Cardinality(Y) \in Nat /\ Cardinality(Left(X)) \in Nat
         /\ Cardinality(Y) <= Cardinality(Left(X))
  <1>1. Left(X) \in SUBSET Active
    BY DEF Left
  <1>2. IsFiniteSet(Left(X))
    BY <1>1, ActiveRequests, FS_Subset
  <1> QED
    BY <1>2, FS_Subset, FS_CardinalityType

LEMMA LimitNat == Limit \in Nat /\ 2 <= Limit /\ Cap <= Limit
  BY CapAssumption DEF Limit

\* Steps that list nothing, revoke nothing listed and let nothing die.
LEMMA CapKept ==
  ASSUME SessionsInv, Active' \ Unlisted' \subseteq Active \ Unlisted, Revoking' = Revoking,
         \A q \in Revoking : todo'[q] = todo[q], UNCHANGED faults
  PROVE  CapSound'
  <1> SUFFICES ASSUME NEW X \in SUBSET Revoking
               PROVE  Cardinality(Left(X)') <= Limit + faults + Cardinality(X)
    BY DEF CapSound, Limit
  <1>1. UNION {ToSet(todo'[q]) : q \in Revoking' \ X} = UNION {ToSet(todo[q]) : q \in Revoking \ X}
    OBVIOUS
  <1>2. Left(X)' \subseteq Left(X)
    BY <1>1 DEF Left
  <1>3. X \in SUBSET Begun /\ IsFiniteSet(Begun) /\ faults \in Nat
    BY DEF SessionsInv, SessionsTypeOK, BegunSound, Revoking, Begun
  <1>4. Cardinality(X) \in Nat
    BY <1>3, FS_Subset, FS_CardinalityType
  <1>5. Cardinality(Left(X)) <= Limit + faults + Cardinality(X)
    BY DEF SessionsInv, CapSound
  <1> QED
    BY <1>2, <1>3, <1>4, <1>5, Fewer, LimitNat DEF SessionsInv

-------------------------------------------------------------------------------
(* The steps.                                                              *)

\* A code begins or lapses, a refresh reads or writes, sessions are revoked at once.
RowStep(s) ==
  \/ \E c \in Codes : StartQr(c) \/ Lapse(c)
  \/ /\ s \in Requests
     /\ \/ ReadRotation(s) \/ WriteRotation(s)
        \/ Logout(s) \/ RevokeSession(s) \/ RevokeOthers(s)

LEMMA RowStepInv ==
  ASSUME SessionsInv, NEW s, RowStep(s)
  PROVE  SessionsInv'
  <1> USE DEF codeVars
  <1>1. UNCHANGED <<at, asked, todo, faults, linked>>
    BY DEF RowStep, StartQr, Lapse, ReadRotation, WriteRotation, Logout, RevokeSession, RevokeOthers
  <1>2. /\ SessionsTypeOK' /\ Active' \subseteq Active
        /\ \A c \in Codes : code'[c] = "approved" <=> code[c] = "approved"
    <2>1. CASE \E c \in Codes : StartQr(c) \/ Lapse(c)
      BY <2>1 DEF StartQr, Lapse, SessionsInv, SessionsTypeOK, Active
    <2>2. CASE s \in Requests /\ ReadRotation(s)
      BY <2>2 DEF ReadRotation, SessionsInv, SessionsTypeOK, Active
    <2>3. CASE s \in Requests /\ WriteRotation(s)
      <3>1. /\ s \in Requests /\ s \in rotating /\ rotating' = rotating \ {s}
            /\ byAge' = IF s \in Active THEN Append(Without({s}), s) ELSE byAge
            /\ UNCHANGED <<revoked, code>>
        BY <2>3 DEF WriteRotation
      <3>2. CASE s \in Active
        <4>1. PICK t : t = Without({s})
          OBVIOUS
        <4>2. t \in Seq(Requests) /\ IsInjective(t) /\ ToSet(t) = Active \ {s}
          BY <4>1, Remaining DEF SessionsInv
        <4>3. /\ Append(t, s) \in Seq(Requests) /\ IsInjective(Append(t, s))
              /\ ToSet(Append(t, s)) = ToSet(t) \union {s}
          <5>1. s \notin ToSet(t)
            BY <4>2
          <5> QED
            BY <3>1, <4>2, <5>1, Appended
        <4>4. byAge' \in Seq(Requests) /\ IsInjective(byAge') /\ ToSet(byAge') = Active
          BY <3>1, <3>2, <4>1, <4>2, <4>3
        <4> QED
          BY <1>1, <3>1, <4>4 DEF SessionsInv, SessionsTypeOK, Active
      <3>3. CASE s \notin Active
        BY <1>1, <3>1, <3>3 DEF SessionsInv, SessionsTypeOK, Active
      <3> QED
        BY <3>2, <3>3
    <2>4. CASE s \in Requests /\ (Logout(s) \/ RevokeSession(s) \/ RevokeOthers(s))
      <3>1. PICK S \in SUBSET Requests : Revoke(S)
        BY <2>4, ActiveRequests DEF Logout, RevokeSession, RevokeOthers, SessionsInv
      <3>2. UNCHANGED <<rotating, code>>
        BY <2>4 DEF Logout, RevokeSession, RevokeOthers
      <3>3. /\ byAge' \in Seq(Requests) /\ IsInjective(byAge') /\ revoked' \subseteq Requests
            /\ Active' = Active \ S
        BY <3>1, Revoked DEF SessionsInv
      <3> QED
        BY <1>1, <3>2, <3>3 DEF SessionsInv, SessionsTypeOK
    <2> QED
      BY <2>1, <2>2, <2>3, <2>4 DEF RowStep
  <1>3. BegunSound'
    BY <1>1, <1>2 DEF SessionsInv, BegunSound, Begun
  <1>4. CapSound'
    <2>1. Unlisted' = Unlisted /\ Revoking' = Revoking
      BY <1>1 DEF Unlisted, Revoking
    <2> QED
      BY <1>1, <1>2, <2>1, CapKept
  <1>5. CodeSound'
    <2>1. \A c \in Codes : Pairings(c)' = Pairings(c)
      BY <1>1 DEF Pairings
    <2> QED
      BY <1>1, <1>2, <2>1 DEF SessionsInv, CodeSound, Settled
  <1> QED
    BY <1>2, <1>3, <1>4, <1>5 DEF SessionsInv

LEMMA HoldersBegun ==
  ASSUME SessionsInv
  PROVE  \A h \in Holders : h \in Requests /\ at[h] # "new"
  <1> SUFFICES ASSUME NEW h \in Holders PROVE h \in Requests /\ at[h] # "new"
    OBVIOUS
  <1>1. CASE h \in Requests /\ at[h] = "done"
    BY <1>1
  <1>2. CASE \E c \in Codes : code[c] = "approved" /\ h = linked[c]
    <2> PICK c \in Codes : code[c] = "approved" /\ h = linked[c]
      BY <1>2
    <2>1. h \in Pairings(c)
      BY DEF SessionsInv, CodeSound
    <2> QED
      BY <2>1 DEF Pairings, SessionsInv, BegunSound
  <1> QED
    BY <1>1, <1>2 DEF Holders

\* A session is created: nobody has listed or linked it yet.
BeginStep(p) == BeginLogin(p) \/ \E c \in Codes, a \in Requests : BeginPairing(p, c, a)

LEMMA BeginStepInv ==
  ASSUME SessionsInv, NEW p \in Requests, BeginStep(p)
  PROVE  SessionsInv'
  <1> USE DEF codeVars
  <1>1. PICK ask \in Asks, step \in {"list", "read"} :
          /\ at[p] = "new" /\ CreateSession(p)
          /\ asked' = [asked EXCEPT ![p] = ask] /\ at' = [at EXCEPT ![p] = step]
          /\ UNCHANGED <<revoked, rotating, code, linked, todo, faults>>
          /\ step = "list" => ask = Login
          /\ step = "read" => ask # Login /\ ask.by \in Holders
    <2>1. CASE BeginLogin(p)
      BY <2>1 DEF BeginLogin, Go, Asks
    <2>2. CASE \E c \in Codes, a \in Requests : BeginPairing(p, c, a)
      <3> PICK c \in Codes, a \in Requests : BeginPairing(p, c, a)
        BY <2>2
      <3>1. Pairing(c, a) \in Asks /\ Pairing(c, a) # Login /\ Pairing(c, a).by = a
        BY DEF Pairing, Login, Asks
      <3> QED
        BY <3>1 DEF BeginPairing, Go
    <2> QED
      BY <2>1, <2>2 DEF BeginStep
  <1>2. /\ byAge' \in Seq(Requests) /\ IsInjective(byAge')
        /\ Active' = Active \union {p} /\ p \notin Active
    BY <1>1, Created DEF SessionsInv
  <1>3. /\ \A q \in Requests : at'[q] = IF q = p THEN step ELSE at[q]
        /\ \A q \in Requests : asked'[q] = IF q = p THEN ask ELSE asked[q]
        /\ asked[p] = Login
    BY <1>1 DEF SessionsInv, SessionsTypeOK, BegunSound
  <1>4. SessionsTypeOK'
    BY <1>1, <1>2 DEF SessionsInv, SessionsTypeOK
  <1>5. BegunSound'
    <2>1. Begun' = Begun \union {p}
      BY <1>3 DEF Begun
    <2>2. IsFiniteSet(Begun')
      BY <2>1, FS_AddElement DEF SessionsInv, BegunSound
    <2>3. Active' \subseteq Begun'
      BY <1>2, <2>1 DEF SessionsInv, BegunSound
    <2>4. \A q \in Requests : asked[q] # Login => asked[q].by \in Requests
      BY DEF SessionsInv, SessionsTypeOK, Asks
    <2>5. ASSUME NEW q \in Requests, asked'[q] # Login
          PROVE  at'[asked'[q].by] # "new"
      <3>1. CASE q = p
        <4>1. ask # Login /\ asked'[q] = ask
          BY <1>3, <2>5, <3>1
        <4>2. ask.by \in Requests /\ at[ask.by] # "new"
          BY <1>1, <4>1, HoldersBegun
        <4> QED
          BY <1>1, <1>3, <4>1, <4>2
      <3>2. CASE q # p
        BY <1>1, <1>3, <2>4, <2>5, <3>2 DEF SessionsInv, BegunSound
      <3> QED
        BY <3>1, <3>2
    <2>6. ASSUME NEW q \in Requests
          PROVE  /\ at'[q] = "new" => asked'[q] = Login
                 /\ at'[q] \in {"read", "write", "drop", "refused"} => asked'[q] # Login
                 /\ at'[q] = "refused" => q \notin Active'
                 /\ at'[q] = "revoke" => todo'[q] # << >>
                 /\ at'[q] = "dead" => faults' > 0
      <3>1. CASE q = p
        BY <1>1, <1>3, <3>1
      <3>2. CASE q # p
        BY <1>1, <1>2, <1>3, <3>2 DEF SessionsInv, BegunSound
      <3> QED
        BY <3>1, <3>2
    <2> QED
      BY <2>2, <2>3, <2>5, <2>6 DEF BegunSound
  <1>6. CapSound'
    <2>1. Unlisted' = Unlisted \union {p}
      BY <1>3 DEF Unlisted
    <2>2. Revoking' = Revoking
      BY <1>1, <1>3 DEF Revoking
    <2> QED
      BY <1>1, <1>2, <2>1, <2>2, CapKept
  <1>7. CodeSound'
    <2> SUFFICES ASSUME NEW c \in Codes
                 PROVE  /\ code[c] = "approved" => linked[c] \in Pairings(c)'
                        /\ \A q \in Pairings(c)' :
                             /\ asked'[q].by \in Pairings(c)' =>
                                  /\ code[c] = "approved"
                                  /\ at'[q] \in {"read", "drop", "refused", "dead"}
                             /\ q \in Active' /\ at'[q] \in {"list", "revoke", "done"}
                                  => code[c] = "approved" /\ Settled(q, linked[c])'
      BY <1>1 DEF CodeSound
    <2>1. Pairings(c)' \subseteq Pairings(c) \union {p} /\ Pairings(c) \subseteq Pairings(c)'
      BY <1>3 DEF Pairings
    <2>2. p \notin Pairings(c)
      BY <1>3 DEF Pairings
    <2>3. ASSUME NEW q \in Pairings(c)', asked'[q].by \in Pairings(c)'
          PROVE  code[c] = "approved" /\ at'[q] \in {"read", "drop", "refused", "dead"}
      <3>1. CASE q # p
        <4>1. q \in Pairings(c) /\ asked[q] = asked'[q] /\ at[q] = at'[q] /\ asked[q] # Login
          BY <1>3, <2>1, <3>1 DEF Pairings
        <4>2. asked[q].by # p
          BY <1>1, <4>1 DEF SessionsInv, BegunSound, Pairings
        <4>3. asked[q].by \in Pairings(c)
          BY <2>1, <2>3, <4>1, <4>2
        <4> QED
          BY <4>1, <4>3 DEF SessionsInv, CodeSound
      <3>2. CASE q = p
        <4>1. step = "read" /\ asked'[q] = ask /\ at'[q] = "read" /\ ask.by \in Holders
          BY <1>1, <1>3, <3>2 DEF Pairings
        <4>2. ask.by # p /\ ask.by \in Pairings(c)
          BY <1>1, <2>1, <2>3, <4>1, HoldersBegun
        <4>3. PICK d \in Codes : code[d] = "approved" /\ ask.by = linked[d]
          BY <4>1, <4>2 DEF Holders, Pairings
        <4>4. linked[d] \in Pairings(d)
          BY <4>3 DEF SessionsInv, CodeSound
        <4>5. d = c
          BY <4>2, <4>3, <4>4 DEF Pairings
        <4> QED
          BY <4>1, <4>3, <4>5
      <3> QED
        BY <3>1, <3>2
    <2>4. ASSUME NEW q \in Pairings(c)', q \in Active', at'[q] \in {"list", "revoke", "done"}
          PROVE  code[c] = "approved" /\ Settled(q, linked[c])'
      <3>1. q # p
        BY <1>1, <1>3, <2>4 DEF Pairings
      <3>2. q \in Pairings(c) /\ q \in Active /\ at[q] = at'[q]
        <4>1. q \in Requests /\ q \in Pairings(c)
          BY <2>1, <3>1 DEF Pairings
        <4>2. q \in Active
          BY <1>2, <2>4, <3>1
        <4> QED
          BY <1>3, <3>1, <4>1, <4>2
      <3>3. code[c] = "approved" /\ Settled(q, linked[c])
        BY <2>4, <3>2 DEF SessionsInv, CodeSound
      <3> QED
        BY <1>1, <1>3, <3>1, <3>3 DEF Settled
    <2> QED
      BY <2>1, <2>3, <2>4 DEF SessionsInv, CodeSound
  <1> QED
    BY <1>4, <1>5, <1>6, <1>7 DEF SessionsInv

\* The three calls of a pairing: the code is read, written, or the session dropped.
CodeStep(p) == ReadCode(p) \/ WriteCode(p) \/ DropSession(p)

LEMMA PairingAsks ==
  ASSUME SessionsInv, NEW p \in Requests, at[p] \in {"read", "write", "drop"}
  PROVE  /\ asked[p].code \in Codes /\ asked[p] # Login /\ p \in Pairings(asked[p].code)
         /\ \A d \in Codes : p \in Pairings(d) => d = asked[p].code
  <1>1. asked[p] # Login /\ asked[p] \in Asks
    BY DEF SessionsInv, SessionsTypeOK, BegunSound
  <1> QED
    BY <1>1 DEF Asks, Pairings

LEMMA ReadCodeInv ==
  ASSUME SessionsInv, NEW p \in Requests, ReadCode(p)
  PROVE  SessionsInv'
  <1> DEFINE c == asked[p].code
  <1>1. /\ at[p] = "read" /\ UNCHANGED <<byAge, revoked, rotating, linked, asked, todo, faults>>
        /\ at' = [at EXCEPT ![p] = IF code[c] = "pending" THEN "write" ELSE "drop"]
        /\ code' = [code EXCEPT ![c] = IF @ = "late" THEN "expired" ELSE @]
    BY DEF ReadCode, Go
  <1>2. c \in Codes /\ p \in Pairings(c) /\ \A d \in Codes : p \in Pairings(d) => d = c
    BY <1>1, PairingAsks
  <1>3. /\ \A q \in Requests : q # p => at'[q] = at[q]
        /\ at'[p] = IF code[c] = "pending" THEN "write" ELSE "drop"
        /\ Active' = Active
    BY <1>1 DEF SessionsInv, SessionsTypeOK, Active
  <1>4. \A d \in Codes : code'[d] = "approved" <=> code[d] = "approved"
    BY <1>1, <1>2 DEF SessionsInv, SessionsTypeOK
  <1>5. SessionsTypeOK'
    BY <1>1, <1>2 DEF SessionsInv, SessionsTypeOK
  <1>6. BegunSound'
    <2>1. Begun' = Begun
      BY <1>1, <1>3 DEF Begun
    <2>2. \A q \in Requests : asked[q] # Login => asked[q].by \in Requests
      BY DEF SessionsInv, SessionsTypeOK, Asks
    <2> QED
      BY <1>1, <1>3, <2>1, <2>2 DEF SessionsInv, BegunSound
  <1>7. CapSound'
    <2>1. Unlisted' = Unlisted /\ Revoking' = Revoking
      BY <1>1, <1>3 DEF Unlisted, Revoking
    <2> QED
      BY <1>1, <1>3, <2>1, CapKept
  <1>8. CodeSound'
    <2>1. \A d \in Codes : Pairings(d)' = Pairings(d)
      BY <1>1 DEF Pairings
    <2>2. ASSUME NEW d \in Codes, NEW q \in Pairings(d), asked[q].by \in Pairings(d)
          PROVE  code[d] = "approved" /\ at'[q] \in {"read", "drop", "refused", "dead"}
      <3>1. code[d] = "approved" /\ at[q] \in {"read", "drop", "refused", "dead"} /\ q \in Requests
        BY <2>2 DEF SessionsInv, CodeSound, Pairings
      <3> QED
        BY <1>2, <1>3, <3>1
    <2>3. ASSUME NEW d \in Codes, NEW q \in Pairings(d), q \in Active,
                 at'[q] \in {"list", "revoke", "done"}
          PROVE  code'[d] = "approved" /\ Settled(q, linked[d])'
      <3>1. q \in Requests /\ q # p
        BY <1>3, <2>3 DEF Pairings
      <3>2. code[d] = "approved" /\ Settled(q, linked[d])
        BY <1>3, <2>3, <3>1 DEF SessionsInv, CodeSound
      <3> QED
        BY <1>1, <1>3, <1>4, <3>1, <3>2 DEF Settled
    <2>4. \A d \in Codes : code[d] = "approved" => linked[d] \in Pairings(d)
      BY DEF SessionsInv, CodeSound
    <2> QED
      BY <1>1, <1>3, <1>4, <2>1, <2>2, <2>3, <2>4 DEF CodeSound
  <1> QED
    BY <1>5, <1>6, <1>7, <1>8 DEF SessionsInv

LEMMA WriteCodeInv ==
  ASSUME SessionsInv, NEW p \in Requests, WriteCode(p)
  PROVE  SessionsInv'
  <1> DEFINE c == asked[p].code
  <1>1. /\ at[p] = "write" /\ UNCHANGED <<byAge, revoked, rotating, asked, todo, faults>>
        /\ at' = [at EXCEPT ![p] = "list"]
        /\ code' = [code EXCEPT ![c] = "approved"] /\ linked' = [linked EXCEPT ![c] = p]
    BY DEF WriteCode, Go
  <1>2. c \in Codes /\ p \in Pairings(c) /\ \A d \in Codes : p \in Pairings(d) => d = c
    BY <1>1, PairingAsks
  <1>3. /\ \A q \in Requests : q # p => at'[q] = at[q]
        /\ at'[p] = "list" /\ Active' = Active
    BY <1>1 DEF SessionsInv, SessionsTypeOK, Active
  <1>4. /\ code'[c] = "approved" /\ linked'[c] = p
        /\ \A d \in Codes : d # c => code'[d] = code[d] /\ linked'[d] = linked[d]
    BY <1>1, <1>2 DEF SessionsInv, SessionsTypeOK
  <1>5. SessionsTypeOK'
    BY <1>1, <1>2 DEF SessionsInv, SessionsTypeOK
  <1>6. BegunSound'
    <2>1. Begun' = Begun
      BY <1>1, <1>3 DEF Begun
    <2>2. \A q \in Requests : asked[q] # Login => asked[q].by \in Requests
      BY DEF SessionsInv, SessionsTypeOK, Asks
    <2> QED
      BY <1>1, <1>3, <2>1, <2>2 DEF SessionsInv, BegunSound
  <1>7. CapSound'
    <2>1. Unlisted' = Unlisted /\ Revoking' = Revoking
      BY <1>1, <1>3 DEF Unlisted, Revoking
    <2> QED
      BY <1>1, <1>3, <2>1, CapKept
  <1>8. CodeSound'
    <2>1. \A d \in Codes : Pairings(d)' = Pairings(d)
      BY <1>1 DEF Pairings
    <2>2. ASSUME NEW d \in Codes, NEW q \in Pairings(d), asked[q].by \in Pairings(d)
          PROVE  code'[d] = "approved" /\ at'[q] \in {"read", "drop", "refused", "dead"}
      <3>1. code[d] = "approved" /\ at[q] \in {"read", "drop", "refused", "dead"} /\ q \in Requests
        BY <2>2 DEF SessionsInv, CodeSound, Pairings
      <3> QED
        BY <1>1, <1>3, <1>4, <3>1
    <2>3. ASSUME NEW d \in Codes, NEW q \in Pairings(d), q \in Active,
                 at'[q] \in {"list", "revoke", "done"}
          PROVE  code'[d] = "approved" /\ Settled(q, linked[d])'
      <3>1. CASE d = c
        BY <1>3, <1>4, <3>1 DEF Settled
      <3>2. CASE d # c
        <4>1. q \in Requests /\ q # p /\ at'[q] = at[q] /\ linked'[d] = linked[d]
          BY <1>2, <1>3, <1>4, <3>2 DEF Pairings
        <4>2. code[d] = "approved" /\ Settled(q, linked[d])
          BY <2>3, <4>1 DEF SessionsInv, CodeSound
        <4>3. PICK l : l = linked[d]
          OBVIOUS
        <4>4. l # p
          BY <1>1, <4>1, <4>2, <4>3 DEF Settled
        <4> QED
          BY <1>1, <1>3, <1>4, <3>2, <4>1, <4>2, <4>3, <4>4 DEF Settled
      <3> QED
        BY <3>1, <3>2
    <2>4. \A d \in Codes : code'[d] = "approved" => linked'[d] \in Pairings(d)
      BY <1>2, <1>4 DEF SessionsInv, CodeSound
    <2> QED
      BY <1>1, <1>3, <2>1, <2>2, <2>3, <2>4 DEF CodeSound
  <1> QED
    BY <1>5, <1>6, <1>7, <1>8 DEF SessionsInv

LEMMA DropSessionInv ==
  ASSUME SessionsInv, NEW p \in Requests, DropSession(p)
  PROVE  SessionsInv'
  <1>1. /\ at[p] = "drop" /\ UNCHANGED <<rotating, code, linked, asked, todo, faults>>
        /\ at' = [at EXCEPT ![p] = "refused"] /\ Revoke({p})
    BY DEF DropSession, Go, codeVars
  <1>2. asked[p] # Login
    BY <1>1 DEF SessionsInv, BegunSound
  <1>3. /\ \A q \in Requests : q # p => at'[q] = at[q]
        /\ at'[p] = "refused"
    BY <1>1 DEF SessionsInv, SessionsTypeOK
  <1>4. /\ byAge' \in Seq(Requests) /\ IsInjective(byAge') /\ revoked' \subseteq Requests
        /\ Active' = Active \ {p}
    BY <1>1, Revoked DEF SessionsInv
  <1>5. SessionsTypeOK'
    BY <1>1, <1>4 DEF SessionsInv, SessionsTypeOK
  <1>6. BegunSound'
    <2>1. Begun' = Begun
      BY <1>1, <1>3 DEF Begun
    <2>2. \A q \in Requests : asked[q] # Login => asked[q].by \in Requests
      BY DEF SessionsInv, SessionsTypeOK, Asks
    <2>3. \A q \in Requests : at'[q] = "refused" => q \notin Active'
      BY <1>3, <1>4 DEF SessionsInv, BegunSound
    <2>4. IsFiniteSet(Begun') /\ Active' \subseteq Begun'
      BY <1>4, <2>1 DEF SessionsInv, BegunSound
    <2> QED
      BY <1>1, <1>2, <1>3, <2>2, <2>3, <2>4 DEF SessionsInv, BegunSound
  <1>7. CapSound'
    <2>1. Unlisted' = Unlisted \ {p} /\ Revoking' = Revoking
      BY <1>1, <1>3 DEF Unlisted, Revoking
    <2> QED
      BY <1>1, <1>4, <2>1, CapKept
  <1>8. CodeSound'
    <2>1. \A d \in Codes : Pairings(d)' = Pairings(d)
      BY <1>1 DEF Pairings
    <2>2. ASSUME NEW d \in Codes, NEW q \in Pairings(d), asked[q].by \in Pairings(d)
          PROVE  code[d] = "approved" /\ at'[q] \in {"read", "drop", "refused", "dead"}
      <3>1. code[d] = "approved" /\ at[q] \in {"read", "drop", "refused", "dead"} /\ q \in Requests
        BY <2>2 DEF SessionsInv, CodeSound, Pairings
      <3> QED
        BY <1>3, <3>1
    <2>3. ASSUME NEW d \in Codes, NEW q \in Pairings(d), q \in Active',
                 at'[q] \in {"list", "revoke", "done"}
          PROVE  code[d] = "approved" /\ Settled(q, linked[d])'
      <3>1. q \in Requests /\ q # p /\ q \in Active
        BY <1>4, <2>3 DEF Pairings
      <3>2. code[d] = "approved" /\ Settled(q, linked[d])
        BY <1>3, <2>3, <3>1 DEF SessionsInv, CodeSound
      <3> QED
        BY <1>1, <1>3, <3>1, <3>2 DEF Settled
    <2>4. \A d \in Codes : code[d] = "approved" => linked[d] \in Pairings(d)
      BY DEF SessionsInv, CodeSound
    <2> QED
      BY <1>1, <2>1, <2>2, <2>3, <2>4 DEF CodeSound
  <1> QED
    BY <1>5, <1>6, <1>7, <1>8 DEF SessionsInv

LEMMA CodeStepInv ==
  ASSUME SessionsInv, NEW p \in Requests, CodeStep(p)
  PROVE  SessionsInv'
  BY ReadCodeInv, WriteCodeInv, DropSessionInv DEF CodeStep

-------------------------------------------------------------------------------
(* A request lists the others, revokes them, or dies.                      *)

LEMMA FewRevoking ==
  ASSUME SessionsInv, NEW X \in SUBSET Revoking, NEW p
  PROVE  /\ Cardinality(X) \in Nat
         /\ p \notin X => Cardinality(X \union {p}) = Cardinality(X) + 1
  <1>1. X \in SUBSET Begun /\ IsFiniteSet(Begun)
    BY DEF SessionsInv, BegunSound, Revoking, Begun
  <1>2. IsFiniteSet(X)
    BY <1>1, FS_Subset
  <1> QED
    BY <1>2, FS_AddElement, FS_CardinalityType

LEMMA OneMore ==
  ASSUME SessionsTypeOK, NEW X, NEW p, NEW Y, Y \subseteq Left(X) \union {p}
  PROVE  /\ Cardinality(Y) \in Nat /\ Cardinality(Left(X)) \in Nat
         /\ Cardinality(Y) <= Cardinality(Left(X)) + 1
  <1>1. IsFiniteSet(Left(X)) /\ Cardinality(Left(X)) \in Nat
    BY Fewer
  <1>2. /\ IsFiniteSet(Left(X) \union {p}) /\ Cardinality(Left(X) \union {p}) \in Nat
        /\ Cardinality(Left(X) \union {p}) <= Cardinality(Left(X)) + 1
    BY <1>1, FS_AddElement, FS_CardinalityType
  <1>3. Y \in SUBSET (Left(X) \union {p})
    OBVIOUS
  <1>4. IsFiniteSet(Y) /\ Cardinality(Y) <= Cardinality(Left(X) \union {p})
    BY <1>2, <1>3, FS_Subset
  <1>5. Cardinality(Y) \in Nat
    BY <1>4, FS_CardinalityType
  <1> QED
    BY <1>1, <1>2, <1>4, <1>5

\* A listing leaves few sessions, and of a pairing only the approver beside the new one.
ListStep(p, t) ==
  /\ at[p] = "list" /\ t \in Seq(Requests) /\ Prune(p, t)
  /\ UNCHANGED <<byAge, revoked, rotating, code, linked, asked, faults>>
  /\ Cardinality(Active \ ToSet(t)) <= Limit
  /\ asked[p] # Login => Active \ {p, asked[p].by} \subseteq ToSet(t)

LEMMA ListStepInv ==
  ASSUME SessionsInv, NEW p \in Requests, NEW t, ListStep(p, t)
  PROVE  SessionsInv'
  <1>1. /\ at[p] = "list" /\ t \in Seq(Requests)
        /\ UNCHANGED <<byAge, revoked, rotating, code, linked, asked, faults>>
        /\ todo' = [todo EXCEPT ![p] = t]
        /\ at' = [at EXCEPT ![p] = IF t = << >> THEN "done" ELSE "revoke"]
        /\ Cardinality(Active \ ToSet(t)) <= Limit
    BY DEF ListStep, Prune, Go
  <1>2. /\ \A q \in Requests : q # p => at'[q] = at[q] /\ todo'[q] = todo[q]
        /\ at'[p] = IF t = << >> THEN "done" ELSE "revoke"
        /\ todo'[p] = t /\ Active' = Active
    BY <1>1 DEF SessionsInv, SessionsTypeOK, Active
  <1>3. SessionsTypeOK'
    BY <1>1 DEF SessionsInv, SessionsTypeOK
  <1>4. BegunSound'
    <2>1. Begun' = Begun
      BY <1>1, <1>2 DEF Begun
    <2>2. \A q \in Requests : asked[q] # Login => asked[q].by \in Requests
      BY DEF SessionsInv, SessionsTypeOK, Asks
    <2> QED
      BY <1>1, <1>2, <2>1, <2>2 DEF SessionsInv, BegunSound
  <1>5. CapSound'
    <2> SUFFICES ASSUME NEW X \in SUBSET Revoking'
                 PROVE  Cardinality(Left(X)') <= Limit + faults + Cardinality(X)
      BY <1>1 DEF CapSound, Limit
    <2>1. /\ Unlisted' = Unlisted \ {p} /\ Revoking' \subseteq Revoking \union {p}
          /\ p \notin Revoking /\ p \in Requests
          /\ \A q \in Revoking : q \in Revoking' /\ todo'[q] = todo[q]
      BY <1>1, <1>2 DEF Unlisted, Revoking
    <2>2. CASE p \in X
      <3> DEFINE Y == X \ {p}
      <3>1. Y \in SUBSET Revoking /\ p \notin Y /\ X = Y \union {p}
        BY <2>1, <2>2
      <3>2. \A q \in Revoking \ Y : q \in Revoking' \ X /\ todo'[q] = todo[q]
        BY <2>1
      <3>3. UNION {ToSet(todo[q]) : q \in Revoking \ Y}
              \subseteq UNION {ToSet(todo'[q]) : q \in Revoking' \ X}
        BY <3>2
      <3>4. Left(X)' \subseteq Left(Y) \union {p}
        BY <1>2, <2>1, <3>3 DEF Left
      <3> HIDE DEF Y
      <3>5. Cardinality(Left(Y)) <= Limit + faults + Cardinality(Y)
        BY <3>1 DEF SessionsInv, CapSound
      <3>6. Cardinality(X) = Cardinality(Y) + 1 /\ Cardinality(Y) \in Nat
        BY <3>1, FewRevoking
      <3>7. /\ Cardinality(Left(X)') \in Nat /\ Cardinality(Left(Y)) \in Nat
            /\ Cardinality(Left(X)') <= Cardinality(Left(Y)) + 1
        BY <3>4, OneMore DEF SessionsInv
      <3> QED
        BY <3>5, <3>6, <3>7, LimitNat DEF SessionsInv, SessionsTypeOK
    <2>3. CASE p \notin X
      <3>1. X \in SUBSET Revoking
        BY <2>1, <2>3
      <3>2. Left(X)' \subseteq Active \ ToSet(t)
        <4>1. CASE t = << >>
          <5>1. ToSet(t) = {}
            BY <4>1 DEF ToSet
          <5> QED
            BY <1>2, <5>1 DEF Left
        <4>2. CASE t # << >>
          <5>1. p \in Revoking' \ X
            BY <1>2, <2>3, <4>2 DEF Revoking
          <5>2. ToSet(t) \subseteq UNION {ToSet(todo'[q]) : q \in Revoking' \ X}
            BY <1>2, <5>1
          <5> QED
            BY <1>2, <5>2 DEF Left
        <4> QED
          BY <4>1, <4>2
      <3>3. IsFiniteSet(Active)
        BY ActiveRequests DEF SessionsInv
      <3>4. IsFiniteSet(Active \ ToSet(t)) /\ Cardinality(Active \ ToSet(t)) \in Nat
        BY <3>3, FS_Difference, FS_CardinalityType
      <3>5. /\ Cardinality(Left(X)') <= Cardinality(Active \ ToSet(t))
            /\ Cardinality(Left(X)') \in Nat
        BY <3>2, <3>4, FS_Subset, FS_CardinalityType
      <3>6. Cardinality(X) \in Nat
        BY <3>1, FewRevoking
      <3> QED
        BY <1>1, <3>4, <3>5, <3>6, LimitNat DEF SessionsInv, SessionsTypeOK
    <2> QED
      BY <2>2, <2>3
  <1>6. CodeSound'
    <2>1. \A d \in Codes : Pairings(d)' = Pairings(d)
      BY <1>1 DEF Pairings
    <2>2. ASSUME NEW d \in Codes, NEW q \in Pairings(d), asked[q].by \in Pairings(d)
          PROVE  code[d] = "approved" /\ at'[q] \in {"read", "drop", "refused", "dead"}
      <3>1. code[d] = "approved" /\ at[q] \in {"read", "drop", "refused", "dead"} /\ q \in Requests
        BY <2>2 DEF SessionsInv, CodeSound, Pairings
      <3>2. q # p
        BY <1>1, <3>1
      <3> QED
        BY <1>2, <3>1, <3>2
    <2>3. ASSUME NEW d \in Codes, NEW q \in Pairings(d), q \in Active,
                 at'[q] \in {"list", "revoke", "done"}
          PROVE  code[d] = "approved" /\ Settled(q, linked[d])'
      <3>1. PICK l : l = linked[d]
        OBVIOUS
      <3>2. q \in Requests /\ at[q] \in {"list", "revoke", "done"}
        BY <1>1, <1>2, <2>3 DEF Pairings
      <3>3. code[d] = "approved" /\ Settled(q, l)
        BY <2>3, <3>1, <3>2 DEF SessionsInv, CodeSound
      <3>4. CASE l # p
        BY <1>1, <1>2, <3>1, <3>2, <3>3, <3>4 DEF Settled
      <3>5. CASE l = q
        BY <1>1, <3>1, <3>2, <3>3, <3>5 DEF Settled
      <3>6. CASE l = p /\ l # q
        <4>1. p \in Pairings(d)
          BY <3>1, <3>3, <3>6 DEF SessionsInv, CodeSound
        <4>2. asked[p] # Login /\ asked[p].by \notin Pairings(d)
          BY <1>1, <4>1 DEF SessionsInv, CodeSound, Pairings
        <4>3. q \in ToSet(t)
          BY <2>3, <3>6, <4>2 DEF ListStep
        <4>4. t # << >>
          BY <4>3 DEF ToSet
        <4> QED
          BY <1>1, <1>2, <3>1, <3>3, <3>6, <4>3, <4>4 DEF Settled
      <3> QED
        BY <3>4, <3>5, <3>6
    <2>4. \A d \in Codes : code[d] = "approved" => linked[d] \in Pairings(d)
      BY DEF SessionsInv, CodeSound
    <2> QED
      BY <1>1, <1>2, <2>1, <2>2, <2>3, <2>4 DEF CodeSound
  <1> QED
    BY <1>3, <1>4, <1>5, <1>6 DEF SessionsInv

LEMMA ListingInv ==
  ASSUME SessionsInv, NEW p \in Requests, ListForLogin(p) \/ ListForPairing(p)
  PROVE  SessionsInv'
  <1>1. /\ Active = ToSet(byAge) /\ byAge \in Seq(Requests) /\ Len(byAge) \in Nat /\ Cap \in Nat
        /\ IsFiniteSet(Active) /\ Cardinality(Active) = Len(byAge)
    BY CapAssumption, ActiveRequests DEF SessionsInv, SessionsTypeOK, Active
  <1>2. CASE ListForLogin(p)
    <2>1. PICK t : t = Surplus
      OBVIOUS
    <2>2. t \in Seq(Requests) /\ Cardinality(Active \ ToSet(t)) <= Limit
      <3>1. CASE Len(byAge) > Cap
        <4>1. t = SubSeq(byAge, 1, Len(byAge) - Cap)
          BY <2>1, <3>1 DEF Surplus
        <4>2. Cap <= Len(byAge)
          BY <1>1, <3>1
        <4>3. /\ t \in Seq(Requests) /\ IsFiniteSet(Active \ ToSet(t))
              /\ Cardinality(Active \ ToSet(t)) <= Cap
          BY <1>1, <4>1, <4>2, LastOnes
        <4>4. Cardinality(Active \ ToSet(t)) \in Nat
          BY <4>3, FS_CardinalityType
        <4> QED
          BY <1>1, <4>3, <4>4, LimitNat
      <3>2. CASE ~(Len(byAge) > Cap)
        <4>1. t = << >>
          BY <2>1, <3>2 DEF Surplus
        <4>2. ToSet(t) = {}
          BY <4>1 DEF ToSet
        <4>3. Active \ ToSet(t) = Active
          BY <4>2
        <4>4. t \in Seq(Requests)
          BY <4>1
        <4>5. Cardinality(Active \ ToSet(t)) = Len(byAge)
          BY <1>1, <4>3
        <4>6. Len(byAge) <= Limit
          BY <1>1, <3>2, LimitNat
        <4> QED
          BY <4>4, <4>5, <4>6
      <3> QED
        BY <3>1, <3>2
    <2>3. ListStep(p, t)
      BY <1>2, <2>1, <2>2 DEF ListForLogin, ListStep, codeVars
    <2> QED
      BY <2>3, ListStepInv
  <1>3. CASE ListForPairing(p)
    <2>1. PICK t \in SetToSeqs(Unkept(p)) : Prune(p, t)
      BY <1>3 DEF ListForPairing
    <2>2. Unkept(p) \in SUBSET Active /\ Unkept(p) \in SUBSET Requests /\ IsFiniteSet(Unkept(p))
      BY <1>1, ActiveRequests, FS_Subset DEF Unkept, SessionsInv
    <2>3. t \in Seq(Unkept(p)) /\ ToSet(t) = Unkept(p)
      BY <2>2, Permuted
    <2>4. t \in Seq(Requests)
      BY <2>2, <2>3
    <2>5. Active \ ToSet(t) \in SUBSET {p, asked[p].by}
      BY <2>3 DEF Unkept
    <2>6. Cardinality(Active \ ToSet(t)) <= Limit
      <3> DEFINE a == asked[p].by
      <3>1. {p, a} = {p} \union {a}
        OBVIOUS
      <3>2. IsFiniteSet({p}) /\ Cardinality({p}) = 1
        BY FS_Singleton
      <3>3. /\ IsFiniteSet({p} \union {a})
            /\ Cardinality({p} \union {a}) = IF a \in {p} THEN Cardinality({p}) ELSE Cardinality({p}) + 1
        BY <3>2, FS_AddElement
      <3>4. IsFiniteSet({p, a}) /\ Cardinality({p, a}) <= 2 /\ Cardinality({p, a}) \in Nat
        BY <3>1, <3>2, <3>3
      <3>5. /\ IsFiniteSet(Active \ ToSet(t))
            /\ Cardinality(Active \ ToSet(t)) <= Cardinality({p, a})
        BY <2>5, <3>4, FS_Subset
      <3>6. Cardinality(Active \ ToSet(t)) \in Nat
        BY <3>5, FS_CardinalityType
      <3> QED
        BY <3>4, <3>5, <3>6, LimitNat
    <2>7. Active \ {p, asked[p].by} \subseteq ToSet(t)
      BY <2>3 DEF Unkept
    <2>8. ListStep(p, t)
      BY <1>3, <2>1, <2>4, <2>6, <2>7 DEF ListForPairing, ListStep, codeVars
    <2> QED
      BY <2>8, ListStepInv
  <1> QED
    BY <1>2, <1>3

LEMMA RevokeNextInv ==
  ASSUME SessionsInv, NEW p \in Requests, RevokeNext(p)
  PROVE  SessionsInv'
  <1>1. PICK h, t : h = Head(todo[p]) /\ t = Tail(todo[p])
    OBVIOUS
  <1>2. /\ at[p] = "revoke" /\ Revoke({h})
        /\ todo' = [todo EXCEPT ![p] = t]
        /\ at' = [at EXCEPT ![p] = IF t = << >> THEN "done" ELSE "revoke"]
        /\ UNCHANGED <<rotating, code, linked, asked, faults>>
    BY <1>1 DEF RevokeNext, Prune, Go, codeVars
  <1>3. todo[p] \in Seq(Requests) /\ todo[p] # << >>
    BY <1>2 DEF SessionsInv, SessionsTypeOK, BegunSound
  <1>4. /\ h \in Requests /\ t \in Seq(Requests) /\ ToSet(todo[p]) = {h} \union ToSet(t)
        /\ ToSet(<< >>) = {}
    BY <1>1, <1>3, HeadAndRest
  <1>5. /\ byAge' \in Seq(Requests) /\ IsInjective(byAge') /\ revoked' \subseteq Requests
        /\ Active' = Active \ {h}
    BY <1>2, <1>4, Revoked DEF SessionsInv
  <1>6. /\ \A q \in Requests : q # p => at'[q] = at[q] /\ todo'[q] = todo[q]
        /\ at'[p] = IF t = << >> THEN "done" ELSE "revoke"
        /\ todo'[p] = t
    BY <1>2 DEF SessionsInv, SessionsTypeOK
  <1>7. SessionsTypeOK'
    BY <1>2, <1>4, <1>5 DEF SessionsInv, SessionsTypeOK
  <1>8. BegunSound'
    <2>1. Begun' = Begun
      BY <1>2, <1>6 DEF Begun
    <2>2. \A q \in Requests : asked[q] # Login => asked[q].by \in Requests
      BY DEF SessionsInv, SessionsTypeOK, Asks
    <2>3. IsFiniteSet(Begun') /\ Active' \subseteq Begun'
      BY <1>5, <2>1 DEF SessionsInv, BegunSound
    <2>4. \A q \in Requests : at'[q] = "refused" => q \notin Active'
      BY <1>5, <1>6 DEF SessionsInv, BegunSound
    <2> QED
      BY <1>2, <1>6, <2>2, <2>3, <2>4 DEF SessionsInv, BegunSound
  <1>9. CapSound'
    <2> SUFFICES ASSUME NEW X \in SUBSET Revoking'
                 PROVE  Cardinality(Left(X)') <= Limit + faults + Cardinality(X)
      BY <1>2 DEF CapSound, Limit
    <2>1. /\ Unlisted' = Unlisted /\ p \in Revoking
          /\ Revoking' \subseteq Revoking /\ Revoking \ {p} \subseteq Revoking'
          /\ Revoking \subseteq Requests
      BY <1>2, <1>6 DEF Unlisted, Revoking
    <2>2. X \in SUBSET Revoking
      BY <2>1
    <2>3. ASSUME NEW q \in Revoking \ X, NEW s \in ToSet(todo[q])
          PROVE  s = h \/ \E r \in Revoking' \ X : s \in ToSet(todo'[r])
      <3>1. CASE q # p
        BY <1>6, <2>1, <2>3, <3>1
      <3>2. CASE q = p /\ s # h
        <4>1. s \in ToSet(t)
          BY <1>4, <2>3, <3>2
        <4>2. t # << >>
          BY <1>4, <4>1
        <4>3. p \in Revoking'
          BY <1>6, <4>2 DEF Revoking
        <4> QED
          BY <1>6, <3>2, <4>1, <4>3
      <3> QED
        BY <3>1, <3>2
    <2>4. Left(X)' \subseteq Left(X)
      <3> DEFINE D == UNION {ToSet(todo[q]) : q \in Revoking \ X}
                 E == UNION {ToSet(todo'[q]) : q \in Revoking' \ X}
      <3>1. D \subseteq E \union {h}
        BY <2>3
      <3>2. Left(X) = (Active \ D) \ Unlisted /\ Left(X)' = (Active' \ E) \ Unlisted'
        BY DEF Left
      <3> HIDE DEF D, E
      <3> QED
        BY <1>5, <2>1, <3>1, <3>2
    <2>5. Cardinality(Left(X)) <= Limit + faults + Cardinality(X)
      BY <2>2 DEF SessionsInv, CapSound
    <2>6. /\ Cardinality(Left(X)') \in Nat /\ Cardinality(Left(X)) \in Nat
          /\ Cardinality(Left(X)') <= Cardinality(Left(X))
      BY <2>4, Fewer DEF SessionsInv
    <2>7. Cardinality(X) \in Nat
      BY <2>2, FewRevoking
    <2> QED
      BY <2>5, <2>6, <2>7, LimitNat DEF SessionsInv, SessionsTypeOK
  <1>10. CodeSound'
    <2>1. \A d \in Codes : Pairings(d)' = Pairings(d)
      BY <1>2 DEF Pairings
    <2>2. ASSUME NEW d \in Codes, NEW q \in Pairings(d), asked[q].by \in Pairings(d)
          PROVE  code[d] = "approved" /\ at'[q] \in {"read", "drop", "refused", "dead"}
      <3>1. code[d] = "approved" /\ at[q] \in {"read", "drop", "refused", "dead"} /\ q \in Requests
        BY <2>2 DEF SessionsInv, CodeSound, Pairings
      <3>2. q # p
        BY <1>2, <3>1
      <3> QED
        BY <1>6, <3>1, <3>2
    <2>3. ASSUME NEW d \in Codes, NEW q \in Pairings(d), q \in Active',
                 at'[q] \in {"list", "revoke", "done"}
          PROVE  code[d] = "approved" /\ Settled(q, linked[d])'
      <3>1. PICK l : l = linked[d]
        OBVIOUS
      <3>2. /\ q \in Requests /\ at[q] \in {"list", "revoke", "done"}
            /\ q \in Active /\ q # h
        BY <1>2, <1>5, <1>6, <2>3 DEF Pairings
      <3>3. code[d] = "approved" /\ Settled(q, l)
        BY <3>1, <3>2 DEF SessionsInv, CodeSound
      <3>4. CASE l # p
        BY <1>2, <1>6, <3>1, <3>3, <3>4 DEF Settled
      <3>5. CASE l = q
        BY <1>2, <3>1, <3>2, <3>3, <3>5 DEF Settled
      <3>6. CASE l = p /\ l # q
        <4>1. q \in ToSet(todo[p])
          BY <1>2, <3>3, <3>6 DEF Settled
        <4>2. q \in ToSet(t)
          BY <1>4, <3>2, <4>1
        <4>3. t # << >>
          BY <1>4, <4>2
        <4> QED
          BY <1>2, <1>6, <3>1, <3>3, <3>6, <4>2, <4>3 DEF Settled
      <3> QED
        BY <3>4, <3>5, <3>6
    <2>4. \A d \in Codes : code[d] = "approved" => linked[d] \in Pairings(d)
      BY DEF SessionsInv, CodeSound
    <2> QED
      BY <1>2, <2>1, <2>2, <2>3, <2>4 DEF CodeSound
  <1> QED
    BY <1>7, <1>8, <1>9, <1>10 DEF SessionsInv

LEMMA CrashInv ==
  ASSUME SessionsInv, NEW p \in Requests, Crash(p)
  PROVE  SessionsInv'
  <1>1. /\ p \in Open /\ at' = [at EXCEPT ![p] = "dead"] /\ faults' = faults + 1 /\ faults \in Nat
        /\ UNCHANGED <<byAge, revoked, rotating, code, linked, asked, todo>>
    BY DEF Crash, Go, codeVars, SessionsInv, SessionsTypeOK
  <1>2. /\ \A q \in Requests : q # p => at'[q] = at[q]
        /\ at'[p] = "dead" /\ Active' = Active /\ at[p] # "new"
    BY <1>1 DEF SessionsInv, SessionsTypeOK, Active, Open
  <1>3. SessionsTypeOK'
    BY <1>1 DEF SessionsInv, SessionsTypeOK
  <1>4. BegunSound'
    <2>1. Begun' = Begun
      BY <1>1, <1>2 DEF Begun
    <2>2. \A q \in Requests : asked[q] # Login => asked[q].by \in Requests
      BY DEF SessionsInv, SessionsTypeOK, Asks
    <2>3. faults' > 0
      BY <1>1
    <2> QED
      BY <1>1, <1>2, <2>1, <2>2, <2>3 DEF SessionsInv, BegunSound
  <1>5. CapSound'
    <2> SUFFICES ASSUME NEW X \in SUBSET Revoking'
                 PROVE  Cardinality(Left(X)') <= Limit + (faults + 1) + Cardinality(X)
      BY <1>1 DEF CapSound, Limit
    <2>1. Revoking' = Revoking \ {p} /\ Unlisted' = Unlisted \ {p} /\ X \in SUBSET Revoking
      BY <1>2 DEF Revoking, Unlisted
    <2>2. Cardinality(X) \in Nat
      BY <2>1, FewRevoking
    <2>3. CASE p \in Revoking
      <3>1. p \notin X /\ p \notin Unlisted
        BY <2>1, <2>3 DEF Revoking, Unlisted
      <3> DEFINE Y == X \union {p}
      <3>2. Y \in SUBSET Revoking /\ Cardinality(Y) = Cardinality(X) + 1
        BY <2>1, <2>3, <3>1, FewRevoking
      <3>3. Revoking' \ X = Revoking \ Y
        BY <2>1
      <3>4. Left(X)' = Left(Y)
        BY <1>1, <1>2, <2>1, <3>1, <3>3 DEF Left
      <3> HIDE DEF Y
      <3>5. Cardinality(Left(Y)) <= Limit + faults + Cardinality(Y)
        BY <3>2 DEF SessionsInv, CapSound
      <3>6. Cardinality(Left(Y)) \in Nat
        BY Fewer DEF SessionsInv
      <3> QED
        BY <1>1, <2>2, <3>2, <3>4, <3>5, <3>6, LimitNat
    <2>4. CASE p \notin Revoking
      <3>1. Left(X)' \subseteq Left(X) \union {p}
        <4>1. Revoking' \ X = Revoking \ X
          BY <2>1, <2>4
        <4> QED
          BY <1>1, <1>2, <2>1, <4>1 DEF Left
      <3>2. Cardinality(Left(X)) <= Limit + faults + Cardinality(X)
        BY <2>1 DEF SessionsInv, CapSound
      <3>3. /\ Cardinality(Left(X)') \in Nat /\ Cardinality(Left(X)) \in Nat
            /\ Cardinality(Left(X)') <= Cardinality(Left(X)) + 1
        BY <3>1, OneMore DEF SessionsInv
      <3> QED
        BY <1>1, <2>2, <3>2, <3>3, LimitNat
    <2> QED
      BY <2>3, <2>4
  <1>6. CodeSound'
    <2>1. \A d \in Codes : Pairings(d)' = Pairings(d)
      BY <1>1 DEF Pairings
    <2>2. ASSUME NEW d \in Codes, NEW q \in Pairings(d), asked[q].by \in Pairings(d)
          PROVE  code[d] = "approved" /\ at'[q] \in {"read", "drop", "refused", "dead"}
      <3>1. code[d] = "approved" /\ at[q] \in {"read", "drop", "refused", "dead"} /\ q \in Requests
        BY <2>2 DEF SessionsInv, CodeSound, Pairings
      <3> QED
        BY <1>2, <3>1
    <2>3. ASSUME NEW d \in Codes, NEW q \in Pairings(d), q \in Active,
                 at'[q] \in {"list", "revoke", "done"}
          PROVE  code[d] = "approved" /\ Settled(q, linked[d])'
      <3>1. PICK l : l = linked[d]
        OBVIOUS
      <3>2. q \in Requests /\ q # p /\ at[q] \in {"list", "revoke", "done"}
        BY <1>2, <2>3 DEF Pairings
      <3>3. code[d] = "approved" /\ Settled(q, l)
        BY <2>3, <3>1, <3>2 DEF SessionsInv, CodeSound
      <3>4. CASE l = p
        BY <1>1, <1>2, <3>1, <3>3, <3>4 DEF Settled
      <3>5. CASE l # p
        BY <1>1, <1>2, <3>1, <3>3, <3>5 DEF Settled
      <3> QED
        BY <3>4, <3>5
    <2>4. \A d \in Codes : code[d] = "approved" => linked[d] \in Pairings(d)
      BY DEF SessionsInv, CodeSound
    <2> QED
      BY <1>1, <1>2, <2>1, <2>2, <2>3, <2>4 DEF CodeSound
  <1> QED
    BY <1>3, <1>4, <1>5, <1>6 DEF SessionsInv

-------------------------------------------------------------------------------
(* The theorems.                                                           *)

\* Every step is one of these.
LEMMA Steps ==
  ASSUME Next
  PROVE  \/ \E p \in Requests :
              \/ RowStep(p) \/ BeginStep(p) \/ CodeStep(p)
              \/ ListForLogin(p) \/ ListForPairing(p) \/ RevokeNext(p) \/ Crash(p)
         \/ \E c \in Codes : StartQr(c) \/ Lapse(c)
  BY DEF Next, RowStep, BeginStep, CodeStep

\* No step leads out of the invariant, nor does a step that changes nothing.
LEMMA SessionsNextInv == SessionsInv /\ [Next]_vars => SessionsInv'
  <1> SUFFICES ASSUME SessionsInv, [Next]_vars PROVE SessionsInv'
    OBVIOUS
  <1>1. CASE Next
    <2>1. ASSUME NEW p \in Requests,
                 \/ RowStep(p) \/ BeginStep(p) \/ CodeStep(p)
                 \/ ListForLogin(p) \/ ListForPairing(p) \/ RevokeNext(p) \/ Crash(p)
          PROVE  SessionsInv'
      BY <2>1, RowStepInv, BeginStepInv, CodeStepInv, ListingInv, RevokeNextInv, CrashInv
    <2>2. ASSUME NEW c \in Codes, StartQr(c) \/ Lapse(c)
          PROVE  SessionsInv'
      BY <2>2, RowStepInv DEF RowStep
    <2> QED
      BY <1>1, <2>1, <2>2, Steps
  <1>2. CASE UNCHANGED vars
    <2> USE <1>2 DEF vars, codeVars
    <2>1. SessionsTypeOK'
      BY DEF SessionsInv, SessionsTypeOK
    <2>2. BegunSound'
      BY DEF SessionsInv, BegunSound, Begun, Active
    <2>3. CapSound'
      BY CapKept DEF Active, Unlisted, Revoking
    <2>4. CodeSound'
      BY DEF SessionsInv, CodeSound, Pairings, Settled, Active
    <2> QED
      BY <2>1, <2>2, <2>3, <2>4 DEF SessionsInv
  <1> QED
    BY <1>1, <1>2

\* The sessions in the table, the requests at work and the codes always agree.
THEOREM SessionsInvariance == Spec => []SessionsInv
  <1>1. Init => SessionsInv
    BY InitialRows
  <1> QED
    BY <1>1, SessionsNextInv, PTL DEF Spec

\* Whatever logins, pairings, refreshes, revocations and crashes do, the
\* sessions beyond the cap belong to requests at work or cut short.
THEOREM WithinCap == Spec => []SessionCap
  <1>1. SessionsInv => SessionCap
    <2> SUFFICES ASSUME SessionsInv PROVE SessionCap
      OBVIOUS
    <2>1. Open = Unlisted \union Revoking /\ Unlisted \intersect Revoking = {}
      BY DEF Open, Unlisted, Revoking, SessionsInv, SessionsTypeOK
    <2>2. Unlisted \in SUBSET Begun /\ Revoking \in SUBSET Begun /\ IsFiniteSet(Begun)
      BY DEF Unlisted, Revoking, Begun, SessionsInv, BegunSound
    <2>3. /\ IsFiniteSet(Unlisted) /\ Cardinality(Unlisted) \in Nat
          /\ IsFiniteSet(Revoking) /\ Cardinality(Revoking) \in Nat
      BY <2>2, FS_Subset, FS_CardinalityType
    <2>4. Cardinality(Open) = Cardinality(Unlisted) + Cardinality(Revoking)
      <3>1. Cardinality({}) = 0
        BY FS_EmptySet
      <3>2. Cardinality(Unlisted \union Revoking)
              = Cardinality(Unlisted) + Cardinality(Revoking) - Cardinality(Unlisted \intersect Revoking)
        BY <2>3, FS_Union
      <3>3. Cardinality(Unlisted \intersect Revoking) = 0
        BY <2>1, <3>1
      <3>4. Cardinality(Open) = Cardinality(Unlisted \union Revoking)
        BY <2>1
      <3> QED
        BY <2>3, <3>2, <3>3, <3>4
    <2>5. Left(Revoking) = Active \ Unlisted
      BY DEF Left
    <2>6. Cardinality(Active \ Unlisted) <= Limit + faults + Cardinality(Revoking)
      BY <2>5 DEF SessionsInv, CapSound
    <2>7. IsFiniteSet(Active) /\ Cardinality(Active) = Len(byAge) /\ Cardinality(Active) \in Nat
      BY ActiveRequests, FS_CardinalityType DEF SessionsInv
    <2>8. Cardinality(Active \ Unlisted) = Cardinality(Active) - Cardinality(Active \intersect Unlisted)
      BY <2>7, FS_Difference
    <2>9. /\ Cardinality(Active \intersect Unlisted) <= Cardinality(Unlisted)
          /\ Cardinality(Active \intersect Unlisted) \in Nat
      <3>1. Active \intersect Unlisted \in SUBSET Unlisted
        OBVIOUS
      <3> QED
        BY <2>3, <3>1, FS_Subset, FS_CardinalityType
    <2>10. Len(byAge) <= Limit + Cardinality(Open) + faults
      BY <2>3, <2>4, <2>6, <2>7, <2>8, <2>9, LimitNat DEF SessionsInv, SessionsTypeOK
    <2> QED
      BY <2>10 DEF SessionCap, Limit
  <1> QED
    BY <1>1, SessionsInvariance, PTL

\* A code leaves one session active, the one it names, even when two approvals
\* of it both got through.
THEOREM OneDevicePerCode == Spec => []OneSessionPerCode
  <1>1. SessionsInv => OneSessionPerCode
    <2> SUFFICES ASSUME SessionsInv, faults = 0, NEW c \in Codes, Pairings(c) \intersect Open = {},
                        NEW p \in Pairings(c), p \in Active
                 PROVE  p = linked[c]
      BY DEF OneSessionPerCode, Pairings
    <2>1. \A q \in Pairings(c) : q \in Requests /\ at[q] \in {"new", "done", "refused", "dead"}
      BY DEF Pairings, Open
    <2>2. at[p] = "done"
      <3>1. at[p] # "new" /\ at[p] # "refused"
        BY <2>1 DEF SessionsInv, BegunSound, Begun
      <3>2. at[p] # "dead"
        BY <2>1 DEF SessionsInv, SessionsTypeOK, BegunSound
      <3> QED
        BY <2>1, <3>1, <3>2
    <2>3. PICK l : l = linked[c]
      OBVIOUS
    <2>4. Settled(p, l) /\ l \in Pairings(c)
      BY <2>2, <2>3 DEF SessionsInv, CodeSound
    <2>5. at[l] # "dead"
      BY <2>1, <2>4 DEF SessionsInv, SessionsTypeOK, BegunSound
    <2> QED
      BY <2>1, <2>3, <2>4, <2>5 DEF Settled
  <1> QED
    BY <1>1, SessionsInvariance, PTL

\* No step takes a session out of the revoked ones.
THEOREM RevocationFinal == Spec => RevokedForGood
  <1>1. [Next]_vars => [revoked \subseteq revoked']_vars
    <2> SUFFICES ASSUME Next PROVE revoked \subseteq revoked'
      OBVIOUS
    <2>1. ASSUME NEW p \in Requests, \/ RowStep(p) \/ BeginStep(p) \/ CodeStep(p)
          PROVE  revoked \subseteq revoked'
      BY <2>1 DEF RowStep, BeginStep, CodeStep, StartQr, Lapse, ReadRotation, WriteRotation, Logout,
                  RevokeSession, RevokeOthers, BeginLogin, BeginPairing, ReadCode, WriteCode,
                  DropSession, Revoke
    <2>2. ASSUME NEW p \in Requests,
                 \/ ListForLogin(p) \/ ListForPairing(p) \/ RevokeNext(p) \/ Crash(p)
          PROVE  revoked \subseteq revoked'
      BY <2>2 DEF ListForLogin, ListForPairing, RevokeNext, Crash, Revoke
    <2>3. ASSUME NEW c \in Codes, StartQr(c) \/ Lapse(c)
          PROVE  revoked \subseteq revoked'
      BY <2>3 DEF StartQr, Lapse
    <2> QED
      BY <2>1, <2>2, <2>3, Steps
  <1> QED
    BY <1>1, PTL DEF Spec, RevokedForGood
================================================================================
