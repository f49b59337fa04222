-------------------------------- MODULE Csrf --------------------------------
(***************************************************************************)
(* The CSRFStore of csrf.go and the requests that call it: every page with *)
(* a form gets a token, every POST presents one (csrfMiddleware).          *)
(*                                                                         *)
(* ValidateToken looks the token up under the read lock, lets go of it,    *)
(* and deletes the token under the write lock: two steps of a request,     *)
(* between which other requests run.                                       *)
(***************************************************************************)
EXTENDS Integers, FiniteSets

CONSTANTS
    Clients,        \* client keys: IP address and User-Agent, never ""
    Tokens,         \* what generateSecureToken can return; bounds the pages served
    Workers,        \* requests handled at the same time
    None            \* absent from the map

ASSUME CsrfAssumption ==
    /\ None \notin Clients
    /\ None \notin Tokens
    /\ IsFiniteSet(Workers)

VARIABLES
    tokens,     \* s.tokens: token -> client key
    request,    \* request[w]: where w is in ValidateToken
    issued,     \* history: whom each token was generated for
    spent,      \* history: tokens some validation has deleted
    swept,      \* history: tokens Cleanup has removed
    uses,       \* history: how often a token has been accepted
    acceptedFor \* history: the clients each token was accepted from

vars == <<tokens, request, issued, spent, swept, uses, acceptedFor>>

Idle == [pc |-> "idle", token |-> None, client |-> None, late |-> FALSE]

\* late: the token had already been used up when this request looked it up.
Found(t, c) == [pc |-> "found", token |-> t, client |-> c, late |-> t \in spent]

TypeOK ==
    /\ tokens \in [Tokens -> Clients \cup {None}]
    /\ request \in [Workers -> [pc : {"idle", "found"},
                                token : Tokens \cup {None},
                                client : Clients \cup {None},
                                late : BOOLEAN]]
    /\ issued \in [Tokens -> Clients \cup {None}]
    /\ spent \in SUBSET Tokens
    /\ swept \in SUBSET Tokens
    /\ uses \in [Tokens -> Nat]
    /\ acceptedFor \in [Tokens -> SUBSET Clients]

Init ==
    /\ tokens = [t \in Tokens |-> None]
    /\ request = [w \in Workers |-> Idle]
    /\ issued = [t \in Tokens |-> None]
    /\ spent = {}
    /\ swept = {}
    /\ uses = [t \in Tokens |-> 0]
    /\ acceptedFor = [t \in Tokens |-> {}]

\* Mutant of GenerateToken: token and client key swapped in the map.
GenerateTokenSwapped(c) ==
    \E t \in Tokens :
        /\ issued[t] = None
        /\ tokens' = [tokens EXCEPT ![t] = t]
        /\ issued' = [issued EXCEPT ![t] = c]
        /\ UNCHANGED <<request, spent, swept, uses, acceptedFor>>

\* Mutant of GenerateToken: a token may come twice.
GenerateTokenRepeats(c) ==
    \E t \in Tokens :
        /\ tokens[t] = None
        /\ tokens' = [tokens EXCEPT ![t] = c]
        /\ issued' = [issued EXCEPT ![t] = c]
        /\ UNCHANGED <<request, spent, swept, uses, acceptedFor>>

\* 32 random bytes: never a token that was issued before.
GenerateToken(c) ==
    \E t \in Tokens :
        /\ issued[t] = None
        /\ tokens' = [tokens EXCEPT ![t] = c]
        /\ issued' = [issued EXCEPT ![t] = c]
        /\ UNCHANGED <<request, spent, swept, uses, acceptedFor>>

\* Mutant of Lookup: whose token it is does not matter.
LookupAnyClient(w, t, c) ==
    /\ request[w] = Idle
    /\ tokens[t] # None
    /\ request' = [request EXCEPT ![w] = Found(t, c)]
    /\ UNCHANGED <<tokens, issued, spent, swept, uses, acceptedFor>>

\* ValidateToken up to the comparison, when the token is c's.
Lookup(w, t, c) ==
    /\ request[w] = Idle
    /\ tokens[t] = c
    /\ request' = [request EXCEPT ![w] = Found(t, c)]
    /\ UNCHANGED <<tokens, issued, spent, swept, uses, acceptedFor>>

\* Mutant of Refuse: a wrong guess uses the token up.
RefuseAndDelete(w, t, c) ==
    /\ request[w] = Idle
    /\ tokens[t] # c
    /\ tokens' = [tokens EXCEPT ![t] = None]
    /\ UNCHANGED <<request, issued, spent, swept, uses, acceptedFor>>

\* ValidateToken returns FALSE: unknown, used, swept, or another client's.
Refuse(w, t, c) ==
    /\ request[w] = Idle
    /\ tokens[t] # c
    /\ UNCHANGED vars

\* Mutant of Consume: the token stays in the map.
ConsumeKeeps(w) ==
    LET t == request[w].token
    IN  /\ request[w].pc = "found"
        /\ spent' = spent \cup {t}
        /\ uses' = [uses EXCEPT ![t] = @ + 1]
        /\ acceptedFor' = [acceptedFor EXCEPT ![t] = @ \cup {request[w].client}]
        /\ request' = [request EXCEPT ![w] = Idle]
        /\ UNCHANGED <<tokens, issued, swept>>

\* The rest of ValidateToken: delete the token, whether it is there or not,
\* and return TRUE.
Consume(w) ==
    LET t == request[w].token
    IN  /\ request[w].pc = "found"
        /\ tokens' = [tokens EXCEPT ![t] = None]
        /\ spent' = spent \cup {t}
        /\ uses' = [uses EXCEPT ![t] = @ + 1]
        /\ acceptedFor' = [acceptedFor EXCEPT ![t] = @ \cup {request[w].client}]
        /\ request' = [request EXCEPT ![w] = Idle]
        /\ UNCHANGED <<issued, swept>>

\* An empty map.  Nothing in the repository calls it; here anything may.
Cleanup ==
    /\ tokens' = [t \in Tokens |-> None]
    /\ swept' = swept \cup {t \in Tokens : tokens[t] # None}
    /\ UNCHANGED <<request, issued, spent, uses, acceptedFor>>

ValidateToken(w) ==
    \/ \E t \in Tokens, c \in Clients : Lookup(w, t, c) \/ Refuse(w, t, c)
    \/ Consume(w)

Next ==
    \/ \E c \in Clients : GenerateToken(c)
    \/ \E w \in Workers : ValidateToken(w)
    \/ Cleanup

Spec == Init /\ [][Next]_vars

-----------------------------------------------------------------------------
(* Properties *)

\* A token is accepted only from the client it was generated for, through
\* every interleaving of lookups, deletions and new tokens (ValidateToken).
OwnerOnly == \A t \in Tokens : acceptedFor[t] \subseteq {issued[t]}

\* A token that some validation has deleted is never found again: a request
\* that arrives after the first one was answered is refused.
NoReplayAfterUse == \A w \in Workers : ~request[w].late

\* A token is accepted at most once by each of the requests that overlap; with
\* one request at a time that is single use (the test TestCSRFStoreGenerateAndValidate).
UsesBounded == \A t \in Tokens : uses[t] <= Cardinality(Workers)

\* A token is lost only by being used or swept: another client's attempt, or
\* the use of another token, leaves a page's form valid.
UnusedTokensKept ==
    \A t \in Tokens : issued[t] # None /\ t \notin spent \cup swept
                        => tokens[t] = issued[t]

\* "Token can only be used once" (csrf.go:56).
SingleUse == \A t \in Tokens : uses[t] <= 1

-----------------------------------------------------------------------------
(* What the proofs need beside the properties above *)

\* The map holds what was issued, and nothing that was used.
MapIsHistory ==
    \A t \in Tokens : tokens[t] # None => tokens[t] = issued[t] /\ t \notin spent

\* A request that has found its token presents it for the client it was
\* issued to.
FoundIsOwned ==
    \A w \in Workers : request[w].pc = "found" =>
        /\ request[w].token \in Tokens
        /\ request[w].client = issued[request[w].token]
        /\ request[w].client \in Clients

\* Only a token that was issued can be used up.
SpentWasIssued == \A t \in spent : issued[t] # None

Holders(t) ==
    {w \in Workers : request[w].pc = "found" /\ request[w].token = t}

\* Once used, a token finds no new holder, so those it has are the only ones
\* that can still be accepted.
UsesAndHolders ==
    \A t \in Tokens :
        /\ uses[t] + Cardinality(Holders(t)) <= Cardinality(Workers)
        /\ uses[t] > 0 => t \in spent

IInv ==
    /\ TypeOK
    /\ MapIsHistory
    /\ FoundIsOwned
    /\ OwnerOnly
    /\ NoReplayAfterUse
    /\ UnusedTokensKept
    /\ SpentWasIssued
    /\ UsesAndHolders
=============================================================================
