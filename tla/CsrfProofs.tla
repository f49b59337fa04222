----------------------------- MODULE CsrfProofs -----------------------------
(***************************************************************************)
(* The token store of Csrf.tla for every number of clients, tokens and     *)
(* overlapping requests, with or without a caller of Cleanup.              *)
(***************************************************************************)
EXTENDS Csrf, FiniteSetTheorems, TLAPS

\* The requests that hold a token can be counted.
LEMMA HoldersFinite ==
    ASSUME NEW t
    PROVE  /\ IsFiniteSet(Holders(t))
           /\ Cardinality(Holders(t)) \in Nat
           /\ Cardinality(Workers) \in Nat
           /\ Cardinality(Holders(t)) <= Cardinality(Workers)
<1>1. Holders(t) \subseteq Workers
  BY DEF Holders
<1> QED
  BY <1>1, CsrfAssumption, FS_Subset, FS_CardinalityType

LEMMA InitInv == ASSUME Init PROVE IInv
<1> USE CsrfAssumption DEF Init
<1>1. TypeOK
  BY DEF TypeOK, Idle
<1>2. MapIsHistory /\ FoundIsOwned /\ OwnerOnly /\ NoReplayAfterUse /\ UnusedTokensKept
        /\ SpentWasIssued
  BY DEF SpentWasIssued, MapIsHistory, FoundIsOwned, OwnerOnly, NoReplayAfterUse,
         UnusedTokensKept, Idle
<1>3. UsesAndHolders
  BY HoldersFinite DEF UsesAndHolders
<1> QED
  BY <1>1, <1>2, <1>3 DEF IInv

LEMMA GenerateTokenInv ==
    ASSUME IInv, NEW c \in Clients, GenerateToken(c)
    PROVE  IInv'
<1> USE CsrfAssumption DEF IInv
<1>1. PICK t \in Tokens :
        /\ issued[t] = None
        /\ tokens' = [tokens EXCEPT ![t] = c]
        /\ issued' = [issued EXCEPT ![t] = c]
        /\ UNCHANGED <<request, spent, swept, uses, acceptedFor>>
  BY DEF GenerateToken
<1>2. c # None /\ tokens \in [Tokens -> Clients \cup {None}]
      /\ issued \in [Tokens -> Clients \cup {None}]
  BY DEF TypeOK
\* A token that was never issued has never been accepted or found.
<1>3. acceptedFor[t] = {}
  BY <1>1 DEF OwnerOnly, TypeOK
<1>4. \A w \in Workers : request[w].pc = "found" => request[w].token # t
  BY <1>1 DEF FoundIsOwned
<1>5. TypeOK'
  BY <1>1 DEF TypeOK
<1>6. t \notin spent
  BY <1>1 DEF SpentWasIssued
<1>7. MapIsHistory' /\ UnusedTokensKept'
  BY <1>1, <1>2, <1>6 DEF MapIsHistory, UnusedTokensKept
<1>8. FoundIsOwned' /\ NoReplayAfterUse'
  BY <1>1, <1>2, <1>4 DEF FoundIsOwned, NoReplayAfterUse
<1>9. OwnerOnly' /\ SpentWasIssued'
  BY <1>1, <1>2, <1>3 DEF OwnerOnly, SpentWasIssued
<1>10. UsesAndHolders'
  BY <1>1 DEF UsesAndHolders, Holders
<1> QED
  BY <1>5, <1>7, <1>8, <1>9, <1>10

LEMMA LookupInv ==
    ASSUME IInv, NEW w \in Workers, NEW t \in Tokens, NEW c \in Clients,
           Lookup(w, t, c)
    PROVE  IInv'
<1> USE CsrfAssumption DEF IInv
<1>1. /\ request[w] = Idle /\ tokens[t] = c
      /\ request' = [request EXCEPT ![w] = Found(t, c)]
      /\ UNCHANGED <<tokens, issued, spent, swept, uses, acceptedFor>>
  BY DEF Lookup
<1>2. c # None /\ c = issued[t] /\ t \notin spent
  BY <1>1 DEF MapIsHistory
<1>3. /\ request'[w] = Found(t, c)
      /\ \A v \in Workers \ {w} : request'[v] = request[v]
  BY <1>1 DEF TypeOK
<1>4. TypeOK'
  BY <1>1, <1>2 DEF TypeOK, Found
<1>5. MapIsHistory' /\ UnusedTokensKept' /\ OwnerOnly' /\ SpentWasIssued'
  BY <1>1 DEF MapIsHistory, UnusedTokensKept, OwnerOnly, SpentWasIssued
<1>6. FoundIsOwned' /\ NoReplayAfterUse'
  <2>1. FoundIsOwned'
    BY <1>1, <1>2, <1>3 DEF FoundIsOwned, Found
  <2>2. ~Found(t, c).late
    BY <1>2 DEF Found
  <2> QED
    BY <1>3, <2>1, <2>2 DEF NoReplayAfterUse
<1>7. UsesAndHolders'
  <2> SUFFICES ASSUME NEW u \in Tokens
               PROVE  /\ uses[u] + Cardinality(Holders(u)') <= Cardinality(Workers)
                      /\ uses[u] > 0 => u \in spent
    BY <1>1 DEF UsesAndHolders
  <2>1. uses[u] \in Nat
    BY DEF TypeOK
  <2>2. CASE u = t
    \* Not used yet: all the requests there are may hold it.
    <3>1. uses[u] = 0
      BY <1>2, <2>1, <2>2 DEF UsesAndHolders
    <3>2. Holders(u)' \subseteq Workers
      BY DEF Holders
    <3>3. /\ Cardinality(Holders(u)') \in Nat
          /\ Cardinality(Workers) \in Nat
          /\ Cardinality(Holders(u)') <= Cardinality(Workers)
      BY <3>2, FS_Subset, FS_CardinalityType
    <3> QED
      BY <3>1, <3>3
  <2>3. CASE u # t
    <3>1. Holders(u)' = Holders(u)
      BY <1>1, <1>3, <2>3 DEF Holders, Found, Idle
    <3> QED
      BY <3>1 DEF UsesAndHolders
  <2> QED
    BY <2>2, <2>3
<1> QED
  BY <1>4, <1>5, <1>6, <1>7

LEMMA ConsumeInv ==
    ASSUME IInv, NEW w \in Workers, Consume(w)
    PROVE  IInv'
<1> USE CsrfAssumption DEF IInv
<1> DEFINE t == request[w].token
           c == request[w].client
<1>1. /\ request[w].pc = "found"
      /\ tokens' = [tokens EXCEPT ![t] = None]
      /\ spent' = spent \cup {t}
      /\ uses' = [uses EXCEPT ![t] = @ + 1]
      /\ acceptedFor' = [acceptedFor EXCEPT ![t] = @ \cup {c}]
      /\ request' = [request EXCEPT ![w] = Idle]
      /\ UNCHANGED <<issued, swept>>
  BY DEF Consume
<1>2. t \in Tokens /\ c = issued[t] /\ c \in Clients /\ c # None
  BY <1>1 DEF FoundIsOwned
<1> HIDE DEF t, c
<1>3. /\ request'[w] = Idle
      /\ \A v \in Workers \ {w} : request'[v] = request[v]
  BY <1>1 DEF TypeOK
<1>4. TypeOK'
  <2>1. request' \in [Workers -> [pc : {"idle", "found"},
                                  token : Tokens \cup {None},
                                  client : Clients \cup {None},
                                  late : BOOLEAN]]
    BY <1>1 DEF TypeOK, Idle
  <2>2. uses' \in [Tokens -> Nat] /\ acceptedFor' \in [Tokens -> SUBSET Clients]
    BY <1>1, <1>2 DEF TypeOK
  <2>3. tokens' \in [Tokens -> Clients \cup {None}] /\ spent' \in SUBSET Tokens
    BY <1>1, <1>2 DEF TypeOK
  <2> QED
    BY <1>1, <2>1, <2>2, <2>3 DEF TypeOK
<1>5. MapIsHistory' /\ UnusedTokensKept'
  BY <1>1, <1>2 DEF MapIsHistory, UnusedTokensKept, TypeOK
<1>6. OwnerOnly' /\ SpentWasIssued'
  BY <1>1, <1>2 DEF OwnerOnly, SpentWasIssued, TypeOK
<1>7. FoundIsOwned' /\ NoReplayAfterUse'
  BY <1>1, <1>3 DEF FoundIsOwned, NoReplayAfterUse, Idle
<1>8. UsesAndHolders'
  <2> SUFFICES ASSUME NEW u \in Tokens
               PROVE  /\ uses'[u] + Cardinality(Holders(u)') <= Cardinality(Workers)
                      /\ uses'[u] > 0 => u \in spent'
    BY DEF UsesAndHolders
  <2>1. /\ uses[u] \in Nat /\ IsFiniteSet(Holders(u)) /\ Cardinality(Holders(u)) \in Nat
        /\ Cardinality(Workers) \in Nat
        /\ uses[u] + Cardinality(Holders(u)) <= Cardinality(Workers)
    BY HoldersFinite DEF TypeOK, UsesAndHolders
  <2>2. CASE u = t
    \* One use more, one holder less.
    <3>1. Holders(u)' = Holders(u) \ {w} /\ w \in Holders(u)
      BY <1>1, <1>3, <2>2 DEF Holders, Idle, t
    <3>2. Cardinality(Holders(u)') = Cardinality(Holders(u)) - 1
      BY <2>1, <3>1, FS_RemoveElement
    <3>3. uses'[u] = uses[u] + 1 /\ u \in spent'
      BY <1>1, <2>2 DEF TypeOK
    <3> QED
      BY <2>1, <3>2, <3>3
  <2>3. CASE u # t
    <3>1. Holders(u)' = Holders(u)
      BY <1>1, <1>3, <2>3 DEF Holders, Idle, t
    <3>2. uses'[u] = uses[u]
      BY <1>1, <2>3 DEF TypeOK
    <3> QED
      BY <1>1, <3>1, <3>2 DEF UsesAndHolders
  <2> QED
    BY <2>2, <2>3
<1> QED
  BY <1>4, <1>5, <1>6, <1>7, <1>8

LEMMA CleanupInv == ASSUME IInv, Cleanup PROVE IInv'
<1> USE CsrfAssumption DEF IInv, Cleanup
<1>1. TypeOK'
  BY DEF TypeOK
<1>2. MapIsHistory' /\ FoundIsOwned' /\ OwnerOnly' /\ SpentWasIssued'
  BY DEF MapIsHistory, FoundIsOwned, OwnerOnly, SpentWasIssued
<1>3. NoReplayAfterUse' /\ UsesAndHolders'
  BY DEF NoReplayAfterUse, UsesAndHolders, Holders
<1>4. UnusedTokensKept'
  BY DEF UnusedTokensKept, TypeOK
<1> QED
  BY <1>1, <1>2, <1>3, <1>4

LEMMA StutterInv == ASSUME IInv, UNCHANGED vars PROVE IInv'
<1> USE DEF vars
<1>1. TypeOK' /\ MapIsHistory' /\ FoundIsOwned' /\ OwnerOnly' /\ SpentWasIssued'
  BY DEF IInv, TypeOK, MapIsHistory, FoundIsOwned, OwnerOnly, SpentWasIssued
<1>2. NoReplayAfterUse' /\ UnusedTokensKept' /\ UsesAndHolders'
  BY DEF IInv, NoReplayAfterUse, UnusedTokensKept, UsesAndHolders, Holders
<1> QED
  BY <1>1, <1>2 DEF IInv

LEMMA NextInv == ASSUME IInv, [Next]_vars PROVE IInv'
<1>1. ASSUME NEW c \in Clients, GenerateToken(c) PROVE IInv'
  BY <1>1, GenerateTokenInv
<1>2. ASSUME NEW w \in Workers, ValidateToken(w) PROVE IInv'
  <2>1. ASSUME NEW t \in Tokens, NEW c \in Clients, Lookup(w, t, c) PROVE IInv'
    BY <2>1, LookupInv
  <2>2. ASSUME NEW t \in Tokens, NEW c \in Clients, Refuse(w, t, c) PROVE IInv'
    BY <2>2, StutterInv DEF Refuse
  <2>3. CASE Consume(w)
    BY <2>3, ConsumeInv
  <2> QED
    BY <1>2, <2>1, <2>2, <2>3 DEF ValidateToken
<1>3. CASE Cleanup
  BY <1>3, CleanupInv
<1>4. CASE UNCHANGED vars
  BY <1>4, StutterInv
<1> QED
  BY <1>1, <1>2, <1>3, <1>4 DEF Next

-----------------------------------------------------------------------------
\* The inductive invariant holds in every reachable state.
THEOREM Invariance == Spec => []IInv
<1>1. Init => IInv
  BY InitInv
<1>2. IInv /\ [Next]_vars => IInv'
  BY NextInv
<1> QED
  BY <1>1, <1>2, PTL DEF Spec

\* The store and the requests in it are well formed (CSRFStore of csrf.go).
THEOREM TypeCorrect == Spec => []TypeOK
<1>1. IInv => TypeOK
  BY DEF IInv
<1> QED
  BY <1>1, Invariance, PTL

\* No interleaving makes ValidateToken accept a token for another client.
THEOREM OwnerOnlyCorrect == Spec => []OwnerOnly
<1>1. IInv => OwnerOnly
  BY DEF IInv
<1> QED
  BY <1>1, Invariance, PTL

\* A used token is dead: requests that arrive afterwards are refused.
THEOREM NoReplayCorrect == Spec => []NoReplayAfterUse
<1>1. IInv => NoReplayAfterUse
  BY DEF IInv
<1> QED
  BY <1>1, Invariance, PTL

\* A page's token stays valid until it is used or swept.
THEOREM UnusedTokensKeptCorrect == Spec => []UnusedTokensKept
<1>1. IInv => UnusedTokensKept
  BY DEF IInv
<1> QED
  BY <1>1, Invariance, PTL

\* A token is accepted no more often than requests overlap.
THEOREM UsesBoundedCorrect == Spec => []UsesBounded
<1>1. IInv => UsesBounded
  <2> SUFFICES ASSUME IInv, NEW t \in Tokens
               PROVE  uses[t] <= Cardinality(Workers)
    BY DEF UsesBounded
  <2>1. uses[t] \in Nat /\ uses[t] + Cardinality(Holders(t)) <= Cardinality(Workers)
    BY DEF IInv, TypeOK, UsesAndHolders
  <2> QED
    BY <2>1, HoldersFinite
<1> QED
  BY <1>1, Invariance, PTL
=============================================================================
