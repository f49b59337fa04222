---------------------------- MODULE ServerProofs ----------------------------
(***************************************************************************)
(* Forms stay good and texts are kept on their way, for any tabs, any      *)
(* tokens (more than tabs) and any limits; and a user who is alone at an   *)
(* address and careful is never told to wait.                              *)
(***************************************************************************)
EXTENDS Server, FiniteSetTheorems, TLAPS

-----------------------------------------------------------------------------
(* Tokens *)

\* There are more tokens than pages hold, so a new one is held by nobody.
LEMMA NewTokenIsFree ==
    ASSUME IInv
    PROVE  NewToken \in Tokens /\ NewToken \notin Held(Tabs)
<1> DEFINE pages == {tab[t].token : t \in Tabs}
<1>1. IsFiniteSet(pages) /\ Cardinality(pages) <= Cardinality(Tabs)
  <2> DEFINE f == [t \in Tabs |-> tab[t].token]
  <2>1. f \in Surjection(Tabs, pages)
    BY DEF Surjection
  <2> QED
    BY <2>1, FS_Surjection, ServerAssumption
<1>2. Held(Tabs) \subseteq pages \cup {None}
  BY DEF IInv, FormsCarryTokens, Held
<1>3. ASSUME Tokens \subseteq Held(Tabs)
      PROVE  FALSE
  <2>1. Tokens \subseteq pages
    BY <1>2, <1>3, ServerAssumption
  <2>2. Cardinality(Tokens) <= Cardinality(pages)
    BY <1>1, <2>1, FS_Subset
  <2>3. Cardinality(pages) \in Nat /\ Cardinality(Tokens) \in Nat /\ Cardinality(Tabs) \in Nat
    BY <1>1, ServerAssumption, FS_CardinalityType
  <2> QED
    BY <1>1, <2>2, <2>3, ServerAssumption
<1>4. \E k \in Tokens \ Held(Tabs) : TRUE
  BY <1>3
<1> QED
  BY <1>4 DEF NewToken

LEMMA ClientType == ASSUME NEW t \in Tabs PROVE Client[t] \in Clients /\ LimitByIP(t) \in IPs
BY DEF Clients, IPs, LimitByIP

-----------------------------------------------------------------------------
(* Limiters *)

Limiters == [Limits -> [IPs -> SUBSET Grants]]

LEMMA RecordedType ==
    ASSUME NEW g \in SUBSET Grants, IsFiniteSet(g)
    PROVE  Recorded(g) \in SUBSET Grants /\ IsFiniteSet(Recorded(g))
<1> DEFINE young == {x \in g : x[1] = 0}
           new == <<0, 1 + Cardinality(young)>>
<1>1. IsFiniteSet(young)
  BY FS_Subset
<1>2. Cardinality(young) \in Nat
  BY <1>1, FS_CardinalityType
<1>3. new \in Grants
  BY <1>2, ServerAssumption DEF Grants
<1>4. IsFiniteSet(g \cup {new})
  BY FS_AddElement
<1> QED
  BY <1>3, <1>4 DEF Recorded

LEMMA OlderType ==
    ASSUME NEW g \in SUBSET Grants, IsFiniteSet(g)
    PROVE  Older(g) \in SUBSET Grants /\ IsFiniteSet(Older(g))
<1> DEFINE kept == {y \in g : y[1] + 1 < Window}
           aged(x) == <<x[1] + 1, x[2]>>
<1>1. IsFiniteSet(kept)
  BY FS_Subset
<1>2. IsFiniteSet({aged(x) : x \in kept})
  <2> DEFINE f == [x \in kept |-> aged(x)]
  <2>1. f \in Surjection(kept, {aged(x) : x \in kept})
    BY DEF Surjection
  <2> QED
    BY <1>1, <2>1, FS_Surjection
<1>3. \A x \in kept : aged(x) \in Grants
  BY ServerAssumption DEF Grants
<1> QED
  BY <1>2, <1>3 DEF Older

LEMMA RecordType ==
    ASSUME IInv, NEW t \in Tabs, NEW l \in Limits, Record(l, t)
    PROVE  limiter' \in Limiters /\ FiniteGrants'
<1> DEFINE a == LimitByIP(t)
<1>1. limiter \in Limiters /\ a \in IPs
  BY ClientType DEF IInv, TypeOK, Limiters
<1>2. limiter[l][a] \in SUBSET Grants /\ IsFiniteSet(limiter[l][a])
  BY <1>1 DEF IInv, FiniteGrants, Limiters
<1>3. Recorded(limiter[l][a]) \in SUBSET Grants /\ IsFiniteSet(Recorded(limiter[l][a]))
  BY <1>2, RecordedType
<1>4. limiter' = [limiter EXCEPT ![l][a] = Recorded(limiter[l][a])]
  BY DEF Record
<1>5. limiter' \in Limiters
  BY <1>1, <1>3, <1>4 DEF Limiters
<1>6. FiniteGrants'
  BY <1>1, <1>3, <1>4 DEF Limiters, IInv, FiniteGrants
<1> QED
  BY <1>5, <1>6

LEMMA ResetType ==
    ASSUME IInv, NEW t \in Tabs, NEW l \in Limits, Reset(l, t)
    PROVE  limiter' \in Limiters /\ FiniteGrants'
<1> DEFINE a == LimitByIP(t)
<1>1. limiter \in Limiters /\ a \in IPs
  BY ClientType DEF IInv, TypeOK, Limiters
<1>2. limiter' = [limiter EXCEPT ![l][a] = {}]
  BY DEF Reset
<1>3. limiter' \in Limiters
  BY <1>1, <1>2 DEF Limiters
<1>4. FiniteGrants'
  BY <1>1, <1>2, FS_EmptySet DEF Limiters, IInv, FiniteGrants
<1> QED
  BY <1>3, <1>4

LEMMA SameLimiters ==
    ASSUME IInv, UNCHANGED limiter
    PROVE  limiter' \in Limiters /\ FiniteGrants'
BY DEF IInv, TypeOK, FiniteGrants, Limiters

-----------------------------------------------------------------------------
(* Pages and redirects *)

Answers == {"ok", "wrong", "limited", "refused"}
Places == {"nowhere", "limit", "csrf", "found", "handle"}
Pages == [form : Forms, token : Tokens \cup {None}, draft : BOOLEAN, answer : Answers]
AllRequests ==
    [at : Places, post : BOOLEAN, route : Routes, token : Tokens \cup {None},
     credential : Credentials, text : BOOLEAN]

LEMMA NoRequestType == NoRequest \in AllRequests
BY DEF NoRequest, AllRequests, Places, Routes, Credentials

LEMMA TypeParts ==
    TypeOK <=> /\ tokens \in [Tokens -> Clients \cup {None}]
               /\ limiter \in Limiters
               /\ tab \in [Tabs -> Pages]
               /\ request \in [Tabs -> AllRequests]
               /\ spent \subseteq Tabs
               /\ editing \subseteq Tabs
               /\ restarts \in 0 .. MaxRestarts
BY DEF TypeOK, Limiters, Pages, AllRequests, Answers, Places

\* A page with a new token: its form is good, and no other form suffers.
LEMMA ShowInv ==
    ASSUME IInv, NEW t \in Tabs, NEW form \in Forms, NEW draft \in BOOLEAN, NEW answer \in Answers,
           Show(t, form, draft, answer), UNCHANGED restarts,
           limiter' \in Limiters, FiniteGrants',
           editing' \in {editing, editing \ {t}},
           t \in editing' => form \in {"view", "lock"} /\ (form = "lock" => draft)
    PROVE  IInv'
<1> DEFINE page == [form |-> form, token |-> NewToken, draft |-> draft, answer |-> answer]
<1>1. NewToken \in Tokens /\ NewToken \notin Held(Tabs)
  BY NewTokenIsFree
<1>2. /\ tokens' = [k \in Tokens |-> IF k = NewToken THEN Client[t]
                               ELSE IF k \in Held(Tabs \ {t}) THEN tokens[k] ELSE None]
      /\ tab' = [tab EXCEPT ![t] = page]
      /\ spent' = spent \ {t}
      /\ request' = [request EXCEPT ![t] = NoRequest]
  BY DEF Show, GenerateToken, Dropped
<1>3. TypeOK
  BY DEF IInv
<1>4. /\ tab'[t] = page
      /\ \A u \in Tabs \ {t} : tab'[u] = tab[u]
      /\ request'[t] = NoRequest
      /\ \A u \in Tabs \ {t} : request'[u] = request[u]
  BY <1>2, <1>3, TypeParts
<1>5. \A u \in Tabs : tab[u].token # NewToken
  BY <1>1 DEF Held
<1>6. TypeOK'
  <2>1. tokens' \in [Tokens -> Clients \cup {None}]
    BY <1>2, <1>3, TypeParts, ClientType
  <2>2. page \in Pages
    BY <1>1 DEF Pages
  <2>3. tab' \in [Tabs -> Pages] /\ request' \in [Tabs -> AllRequests]
    BY <1>2, <1>3, <2>2, TypeParts, NoRequestType
  <2>4. spent' \subseteq Tabs /\ editing' \subseteq Tabs /\ restarts' \in 0 .. MaxRestarts
    BY <1>2, <1>3, TypeParts
  <2> QED
    BY <2>1, <2>3, <2>4 DEF TypeOK, Limiters, Pages, AllRequests, Answers, Places
<1>7. FormsCarryTokens'
  BY <1>4 DEF IInv, FormsCarryTokens, NoRequest
<1>8. OwnTokens'
  BY <1>4, <1>5 DEF IInv, OwnTokens
<1>9. FormsAreLive'
  <2>1. tokens'[NewToken] = Client[t]
    BY <1>1, <1>2
  <2>2. ASSUME NEW u \in Tabs \ {t}, tab[u].token # None
        PROVE  tokens'[tab[u].token] = tokens[tab[u].token]
    <3>1. tab[u].token \in Tokens
      BY <1>3, <2>2, TypeParts DEF Pages
    <3>2. tab[u].token \in Held(Tabs \ {t})
      BY DEF Held
    <3>3. tab[u].token # NewToken
      BY <1>5
    <3> HIDE DEF page
    <3> QED
      BY <1>2, <3>1, <3>2, <3>3
  <2>3. ASSUME NEW u \in Tabs \ {t}, tab'[u].token # None, u \notin spent',
               ~(request'[u].at = "handle" /\ request'[u].post)
        PROVE  tokens'[tab'[u].token] = Client[u]
    <3>1. tokens[tab[u].token] = Client[u]
      BY <1>2, <1>4, <2>3 DEF IInv, FormsAreLive
    <3> QED
      BY <1>4, <2>2, <2>3, <3>1
  <2>4. tokens'[tab'[t].token] = Client[t]
    BY <1>4, <2>1
  <2> QED
    BY <2>3, <2>4 DEF FormsAreLive
<1>10. DraftTravels' /\ DraftKept'
  <2>1. ASSUME NEW u \in editing', u # t
        PROVE  u \in editing /\ u \in Tabs \ {t}
    BY <1>3, <2>1, TypeParts
  <2>2. ASSUME NEW u \in editing', u # t
        PROVE  tab'[u] = tab[u] /\ request'[u] = request[u]
    BY <1>4, <2>1, <2>2
  <2>3. t \in editing' => tab'[t].form \in {"view", "lock"} /\ (tab'[t].form = "lock" => tab'[t].draft)
    BY <1>4
  <2>4. DraftTravels'
    BY <1>4, <2>1, <2>2, <2>3 DEF IInv, DraftTravels
  <2>5. DraftKept'
    BY <2>1, <2>2, <2>3 DEF IInv, DraftKept
  <2> QED
    BY <2>4, <2>5
<1> QED
  BY <1>6, <1>7, <1>8, <1>9, <1>10 DEF IInv

\* A redirect, to somebody who has no text to save.
LEMMA RedirectInv ==
    ASSUME IInv, NEW t \in Tabs, NEW route \in Routes, Redirect(t, route),
           request[t].at = "handle", t \notin editing,
           UNCHANGED <<editing, restarts>>, limiter' \in Limiters, FiniteGrants'
    PROVE  IInv'
<1> DEFINE r == [NoRequest EXCEPT !.at = "limit", !.route = route]
<1>1. TypeOK
  BY DEF IInv
<1>2. Layers(FALSE)[1] = "limit"
  BY DEF Layers
<1>3. /\ request'[t] = r
      /\ request' = [request EXCEPT ![t] = r]
      /\ \A u \in Tabs \ {t} : request'[u] = request[u]
      /\ spent' = IF request[t].post THEN spent \cup {t} ELSE spent
      /\ tokens' = tokens /\ tab' = tab
  BY <1>1, <1>2, TypeParts DEF Redirect
<1>4. r.at = "limit" /\ r.post = FALSE /\ r.token = None /\ r \in AllRequests
  BY DEF NoRequest, AllRequests, Places, Routes, Credentials
<1>5. TypeOK'
  <2>1. request' \in [Tabs -> AllRequests] /\ spent' \subseteq Tabs
    BY <1>1, <1>3, <1>4, TypeParts
  <2> QED
    BY <1>1, <1>3, <2>1, TypeParts DEF TypeOK, Limiters, Pages, AllRequests, Answers, Places
<1>6. FormsCarryTokens' /\ OwnTokens'
  BY <1>3, <1>4 DEF IInv, FormsCarryTokens, OwnTokens
<1>7. FormsAreLive'
  BY <1>3, <1>4 DEF IInv, FormsAreLive
<1>8. DraftTravels' /\ DraftKept'
  BY <1>1, <1>3, TypeParts DEF IInv, DraftTravels, DraftKept
<1> QED
  BY <1>5, <1>6, <1>7, <1>8 DEF IInv
-----------------------------------------------------------------------------
(* The middleware *)

\* A request goes on, or is dropped, and nothing but limiters changes.
LEMMA GoesOn ==
    ASSUME IInv, NEW t \in Tabs, NEW r \in AllRequests,
           request' = [request EXCEPT ![t] = r],
           UNCHANGED <<tokens, tab, spent, editing, restarts>>,
           limiter' \in Limiters, FiniteGrants',
           r = NoRequest \/ \E at \in Places : r = [request[t] EXCEPT !.at = at],
           r.at \in {"csrf", "found"} => r.post,
           request[t].at \notin {"nowhere", "handle"}
    PROVE  IInv'
<1>1. TypeOK
  BY DEF IInv
<1>2. /\ request'[t] = r
      /\ \A u \in Tabs \ {t} : request'[u] = request[u]
  BY <1>1, TypeParts
<1>3. \/ r = NoRequest
      \/ /\ r.post = request[t].post /\ r.token = request[t].token
         /\ r.route = request[t].route /\ r.text = request[t].text
  BY <1>1, TypeParts DEF AllRequests, NoRequest
<1>4. TypeOK'
  <2>1. request' \in [Tabs -> AllRequests]
    BY <1>1, TypeParts
  <2> QED
    BY <1>1, <2>1, TypeParts DEF TypeOK, Limiters, Pages, AllRequests, Answers, Places
<1>5. FormsCarryTokens' /\ OwnTokens'
  BY <1>2, <1>3 DEF IInv, FormsCarryTokens, OwnTokens, NoRequest
<1>6. FormsAreLive'
  BY <1>2, <1>3 DEF IInv, FormsAreLive, NoRequest
<1>7. DraftTravels' /\ DraftKept'
  <2>1. request[t] # NoRequest
    BY DEF NoRequest
  <2>2. editing \subseteq Tabs
    BY <1>1, TypeParts
  <2>3. t \in editing => r = NoRequest \/ (r.post /\ r.route = "key" /\ r.text)
    BY <1>3, <2>1 DEF IInv, DraftTravels
  <2>4. DraftTravels'
    BY <1>2, <2>2, <2>3 DEF IInv, DraftTravels
  <2> QED
    BY <2>4 DEF IInv, DraftKept
<1> QED
  BY <1>4, <1>5, <1>6, <1>7 DEF IInv

LEMMA LimitRequestInv == ASSUME IInv, NEW t \in Tabs, LimitRequest(t) PROVE IInv'
<1> DEFINE next == Inside(t, "limit")
<1>1. TypeOK /\ request[t] \in AllRequests
  BY TypeParts DEF IInv
<1>2. next = IF request[t].post THEN "csrf" ELSE "handle"
  BY <1>1 DEF Inside, Layers, Middleware, AllRequests
<1>3. limiter' \in Limiters /\ FiniteGrants'
  BY RecordType, SameLimiters DEF LimitRequest, Limits
<1>4. CASE Allowed("http", t)
  <2> DEFINE r == [request[t] EXCEPT !.at = next]
  <2>1. r \in AllRequests /\ r.at = next /\ r.post = request[t].post /\ next \in Places
    BY <1>1, <1>2 DEF AllRequests, Places
  <2>2. request' = [request EXCEPT ![t] = r]
    BY <1>1, <1>4, TypeParts DEF LimitRequest, Goto
  <2>3. \E at \in Places : r = [request[t] EXCEPT !.at = at]
    BY <2>1
  <2>4. r.at \in {"csrf", "found"} => r.post
    BY <1>2, <2>1
  <2>5. request[t].at \notin {"nowhere", "handle"}
        /\ UNCHANGED <<tokens, tab, spent, editing, restarts>>
    BY DEF LimitRequest
  <2> HIDE DEF r
  <2> QED
    BY <1>3, <2>1, <2>2, <2>3, <2>4, <2>5, GoesOn
<1>5. CASE ~Allowed("http", t)
  <2>1. request' = [request EXCEPT ![t] = NoRequest]
    BY <1>5 DEF LimitRequest, Dropped
  <2> QED
    BY <1>3, <2>1, NoRequestType, GoesOn DEF LimitRequest, NoRequest
<1> QED
  BY <1>4, <1>5

LEMMA LookupTokenInv == ASSUME IInv, NEW t \in Tabs, LookupToken(t) PROVE IInv'
<1> DEFINE accepted == request[t].token # None /\ tokens[request[t].token] = Client[t]
<1>1. TypeOK /\ request[t] \in AllRequests
  BY TypeParts DEF IInv
<1>2. request[t].at = "csrf" /\ request[t].post
  BY DEF LookupToken, IInv, FormsCarryTokens
<1>3. limiter' \in Limiters /\ FiniteGrants'
  BY SameLimiters DEF LookupToken
<1>4. CASE accepted
  <2> DEFINE r == [request[t] EXCEPT !.at = "found"]
  <2>1. r \in AllRequests /\ r.at = "found" /\ r.post
    BY <1>1, <1>2 DEF AllRequests, Places
  <2>2. request' = [request EXCEPT ![t] = r] /\ tab' = tab
    BY <1>1, <1>4, TypeParts DEF LookupToken, Goto
  <2>3. \E at \in Places : r = [request[t] EXCEPT !.at = at]
    BY DEF Places
  <2> HIDE DEF r
  <2> QED
    BY <1>2, <1>3, <2>1, <2>2, <2>3, GoesOn DEF LookupToken
<1>5. CASE ~accepted
  <2>1. /\ request' = [request EXCEPT ![t] = NoRequest]
        /\ tab' = [tab EXCEPT ![t].answer = "refused"]
    BY <1>5 DEF LookupToken, Dropped
  <2>2. /\ request'[t] = NoRequest
        /\ \A u \in Tabs \ {t} : request'[u] = request[u]
        /\ \A u \in Tabs : /\ tab'[u].token = tab[u].token /\ tab'[u].form = tab[u].form
                           /\ tab'[u].draft = tab[u].draft
    BY <1>1, <2>1, TypeParts DEF Pages
  <2>3. TypeOK'
    <3>1. tab' \in [Tabs -> Pages] /\ request' \in [Tabs -> AllRequests]
      BY <1>1, <2>1, TypeParts, NoRequestType DEF Pages, Answers
    <3> QED
      BY <1>1, <1>3, <3>1, TypeParts
      DEF LookupToken, TypeOK, Limiters, Pages, AllRequests, Answers, Places
  <2>4. FormsCarryTokens' /\ OwnTokens'
    BY <2>2 DEF IInv, FormsCarryTokens, OwnTokens, NoRequest
  <2>5. FormsAreLive'
    BY <1>2, <2>2 DEF LookupToken, IInv, FormsAreLive, NoRequest
  <2>6. DraftTravels' /\ DraftKept'
    BY <1>1, <2>2, TypeParts DEF LookupToken, IInv, DraftTravels, DraftKept
  <2> QED
    BY <1>3, <2>3, <2>4, <2>5, <2>6 DEF IInv
<1> QED
  BY <1>4, <1>5

\* The token that goes is that of the page whose form is with the handler now.
LEMMA DeleteTokenInv == ASSUME IInv, NEW t \in Tabs, DeleteToken(t) PROVE IInv'
<1> DEFINE r == [request[t] EXCEPT !.at = "handle"]
<1>1. TypeOK /\ request[t] \in AllRequests
  BY TypeParts DEF IInv
<1>2. request[t].at = "found" /\ request[t].post /\ request[t].token = tab[t].token
  BY DEF DeleteToken, IInv, FormsCarryTokens
<1>3. limiter' \in Limiters /\ FiniteGrants'
  BY SameLimiters DEF DeleteToken
<1>4. r \in AllRequests /\ r.at = "handle" /\ r.post /\ r.token = request[t].token
      /\ r.route = request[t].route /\ r.text = request[t].text
  BY <1>1, <1>2 DEF AllRequests, Places
<1>5. Inside(t, "csrf") = "handle"
  BY <1>2 DEF Inside, Layers, Middleware
<1>6. /\ request' = [request EXCEPT ![t] = r]
      /\ tokens' = [tokens EXCEPT ![tab[t].token] = None]
      /\ UNCHANGED <<tab, spent, editing, restarts>>
  BY <1>1, <1>2, <1>5, TypeParts DEF DeleteToken, Goto
<1>7. /\ request'[t] = r
      /\ \A u \in Tabs \ {t} : request'[u] = request[u]
  BY <1>1, <1>6, TypeParts
<1> HIDE DEF r
<1>8. TypeOK'
  <2>1. tokens' \in [Tokens -> Clients \cup {None}] /\ request' \in [Tabs -> AllRequests]
    BY <1>1, <1>4, <1>6, TypeParts
  <2> QED
    BY <1>1, <1>3, <1>6, <2>1, TypeParts DEF TypeOK, Limiters, Pages, AllRequests, Answers, Places
<1>9. FormsCarryTokens' /\ OwnTokens'
  BY <1>2, <1>4, <1>6, <1>7 DEF IInv, FormsCarryTokens, OwnTokens
<1>10. FormsAreLive'
  <2>1. ASSUME NEW u \in Tabs \ {t}, tab[u].token # None
        PROVE  tokens'[tab[u].token] = tokens[tab[u].token]
    <3>1. tab[u].token \in Tokens /\ tab[u].token # tab[t].token
      BY <1>1, <2>1, TypeParts DEF IInv, OwnTokens, Pages
    <3> QED
      BY <1>1, <1>6, <3>1, TypeParts
  <2> QED
    BY <1>4, <1>6, <1>7, <2>1 DEF IInv, FormsAreLive
<1>11. DraftTravels' /\ DraftKept'
  <2>1. request[t] # NoRequest /\ editing \subseteq Tabs
    BY <1>1, <1>2, TypeParts DEF NoRequest
  <2>2. t \in editing => r.post /\ r.route = "key" /\ r.text
    BY <1>4, <2>1 DEF IInv, DraftTravels
  <2>3. DraftTravels'
    BY <1>6, <1>7, <2>1, <2>2 DEF IInv, DraftTravels
  <2> QED
    BY <1>6, <2>3 DEF IInv, DraftKept
<1> QED
  BY <1>3, <1>8, <1>9, <1>10, <1>11 DEF IInv

-----------------------------------------------------------------------------
(* The handlers *)

\* Whoever has a text to save has sent it to the entry.
LEMMA OnlyToTheEntry ==
    ASSUME IInv, NEW t \in editing, request[t].at = "handle"
    PROVE  request[t].post /\ request[t].route = "key" /\ request[t].text
BY DEF IInv, DraftTravels, NoRequest

LEMMA RequestType ==
    ASSUME IInv, NEW t \in Tabs
    PROVE  request[t].post \in BOOLEAN /\ request[t].text \in BOOLEAN
           /\ tab[t].draft \in BOOLEAN /\ tab[t].token \in Tokens \cup {None}
BY TypeParts DEF IInv, AllRequests, Pages

LEMMA HandleIndexInv == ASSUME IInv, NEW t \in Tabs, HandleIndex(t) PROVE IInv'
<1>1. t \notin editing
  BY OnlyToTheEntry DEF HandleIndex, Handling
<1>2. limiter' \in Limiters /\ FiniteGrants'
  BY SameLimiters DEF HandleIndex
<1> QED
  BY <1>1, <1>2, ShowInv DEF HandleIndex, Forms, Answers

LEMMA HandleGenerateInv == ASSUME IInv, NEW t \in Tabs, HandleGenerate(t) PROVE IInv'
<1>1. t \notin editing
  BY OnlyToTheEntry DEF HandleGenerate, Handling
<1>2. limiter' \in Limiters /\ FiniteGrants'
  BY SameLimiters DEF HandleGenerate
<1>3. UNCHANGED <<editing, restarts>> /\ request[t].at = "handle"
  BY DEF HandleGenerate, Handling
<1>4. Redirect(t, "index") \/ Redirect(t, "key") \/ Show(t, "setup", TRUE, "ok")
  BY DEF HandleGenerate
<1>5. CASE Redirect(t, "index") \/ Redirect(t, "key")
  BY <1>1, <1>2, <1>3, <1>5, RedirectInv DEF Routes
<1>6. CASE Show(t, "setup", TRUE, "ok")
  BY <1>1, <1>2, <1>3, <1>6, ShowInv DEF Forms, Answers
<1> QED
  BY <1>4, <1>5, <1>6

LEMMA HandleSetupTOTPInv == ASSUME IInv, NEW t \in Tabs, HandleSetupTOTP(t) PROVE IInv'
<1>1. t \notin editing
  BY OnlyToTheEntry DEF HandleSetupTOTP, Handling
<1>2. limiter' \in Limiters /\ FiniteGrants'
  BY RecordType, SameLimiters DEF HandleSetupTOTP, Limits
<1>3. UNCHANGED <<editing, restarts>> /\ request[t].at = "handle"
  BY DEF HandleSetupTOTP, Handling
<1>4. \/ \E answer \in Answers : Show(t, "setup", request[t].text, answer)
      \/ Redirect(t, "key")
  BY DEF HandleSetupTOTP, Answers
<1>5. CASE Redirect(t, "key")
  BY <1>1, <1>2, <1>3, <1>5, RedirectInv DEF Routes
<1>6. ASSUME NEW answer \in Answers, Show(t, "setup", request[t].text, answer)
      PROVE  IInv'
  BY <1>1, <1>2, <1>3, <1>6, RequestType, ShowInv DEF Forms
<1> QED
  BY <1>4, <1>5, <1>6

LEMMA ViewGetInv == ASSUME IInv, NEW t \in Tabs, ViewGet(t) PROVE IInv'
<1>1. t \notin editing
  BY OnlyToTheEntry DEF ViewGet, Handling
<1>2. limiter' \in Limiters /\ FiniteGrants'
  BY SameLimiters DEF ViewGet
<1> QED
  BY <1>1, <1>2, ShowInv DEF ViewGet, Forms, Answers

LEMMA ViewTextOnlyInv == ASSUME IInv, NEW t \in Tabs, ViewTextOnly(t) PROVE IInv'
<1>1. limiter' \in Limiters /\ FiniteGrants'
  BY SameLimiters DEF ViewTextOnly
<1> QED
  BY <1>1, ShowInv DEF ViewTextOnly, Forms, Answers

LEMMA ViewRightInv == ASSUME IInv, NEW t \in Tabs, ViewRight(t) PROVE IInv'
<1>1. limiter' \in Limiters /\ FiniteGrants'
  BY ResetType DEF ViewRight, Limits
<1>2. t \notin editing' /\ editing' \in {editing, editing \ {t}}
  BY OnlyToTheEntry DEF ViewRight, Handling
<1> QED
  BY <1>1, <1>2, ShowInv DEF ViewRight, Forms, Answers

LEMMA ViewWrongInv == ASSUME IInv, NEW t \in Tabs, ViewWrong(t) PROVE IInv'
<1>1. limiter' \in Limiters /\ FiniteGrants'
  BY RecordType, SameLimiters DEF ViewWrong, Limits
<1>2. t \in editing => request[t].text
  BY OnlyToTheEntry DEF ViewWrong, Handling
<1>3. UNCHANGED <<editing, restarts>>
  BY DEF ViewWrong
<1>4. PICK answer \in Answers : Show(t, "lock", request[t].text, answer)
  BY DEF ViewWrong, Answers
<1> QED
  BY <1>1, <1>2, <1>3, <1>4, RequestType, ShowInv DEF Forms

LEMMA ServeInv == ASSUME IInv, NEW t \in Tabs, Serve(t) PROVE IInv'
BY LimitRequestInv, LookupTokenInv, DeleteTokenInv, HandleIndexInv, HandleGenerateInv,
   HandleSetupTOTPInv, ViewGetInv, ViewTextOnlyInv, ViewRightInv, ViewWrongInv DEF Serve

-----------------------------------------------------------------------------
(* The users *)

LEMMA SendInv ==
    ASSUME IInv, NEW t \in Tabs, NEW r \in AllRequests, Send(t, r),
           r.token \in {None, tab[t].token}, r.post => r.token = tab[t].token,
           editing' \in {editing, editing \ {t}, editing \cup {t}},
           t \in editing' =>
              /\ tab[t].form \in {"view", "lock"} /\ (tab[t].form = "lock" => tab[t].draft)
              /\ r.post /\ r.route = "key" /\ r.text
    PROVE  IInv'
<1> DEFINE sent == [r EXCEPT !.at = "limit"]
<1>1. TypeOK
  BY DEF IInv
<1>2. Layers(r.post)[1] = "limit"
  BY DEF Layers, Middleware
<1>3. sent.at = "limit" /\ sent \in AllRequests /\ sent.post = r.post
      /\ sent.token = r.token /\ sent.route = r.route /\ sent.text = r.text
  BY DEF AllRequests, Places
<1>4. /\ request[t] = NoRequest
      /\ request' = [request EXCEPT ![t] = sent]
      /\ UNCHANGED <<tokens, limiter, tab, spent, restarts>>
  BY <1>2 DEF Send
<1>5. /\ request'[t] = sent
      /\ \A u \in Tabs \ {t} : request'[u] = request[u]
  BY <1>1, <1>4, TypeParts
<1> HIDE DEF sent
<1>6. limiter' \in Limiters /\ FiniteGrants'
  BY <1>4, SameLimiters
<1>7. editing' \subseteq Tabs /\ \A u \in editing' : u = t \/ u \in editing \ {t}
  BY <1>1, TypeParts
<1>8. TypeOK'
  <2>1. request' \in [Tabs -> AllRequests]
    BY <1>1, <1>3, <1>4, TypeParts
  <2> QED
    BY <1>1, <1>4, <1>6, <1>7, <2>1, TypeParts
    DEF TypeOK, Limiters, Pages, AllRequests, Answers, Places
<1>9. FormsCarryTokens' /\ OwnTokens'
  BY <1>3, <1>4, <1>5 DEF IInv, FormsCarryTokens, OwnTokens
<1>10. FormsAreLive'
  BY <1>3, <1>4, <1>5 DEF IInv, FormsAreLive, NoRequest
<1>11. DraftTravels' /\ DraftKept'
  BY <1>3, <1>4, <1>5, <1>7 DEF IInv, DraftTravels, DraftKept
<1> QED
  BY <1>6, <1>8, <1>9, <1>10, <1>11 DEF IInv

LEMMA OpenInv ==
    ASSUME IInv, NEW t \in Tabs, NEW route \in Routes, Open(t, route)
    PROVE  IInv'
<1> DEFINE r == [NoRequest EXCEPT !.route = route]
<1>1. r \in AllRequests /\ ~r.post /\ r.token = None
  BY DEF NoRequest, AllRequests, Places, Routes, Credentials
<1>2. Send(t, r) /\ editing' = editing \ {t}
  BY DEF Open
<1> HIDE DEF r
<1> QED
  BY <1>1, <1>2, SendInv

LEMMA PostInv ==
    ASSUME IInv, NEW t \in Tabs, NEW route \in Routes, NEW credential \in Credentials,
           NEW text \in BOOLEAN, Post(t, route, credential, text),
           editing' \in {editing, editing \ {t}, editing \cup {t}},
           t \in editing' =>
              /\ tab[t].form \in {"view", "lock"} /\ (tab[t].form = "lock" => tab[t].draft)
              /\ route = "key" /\ text
    PROVE  IInv'
<1> DEFINE r == [NoRequest EXCEPT !.post = TRUE, !.route = route, !.token = tab[t].token,
                                  !.credential = credential, !.text = text]
<1>1. /\ r \in AllRequests
      /\ r.post /\ r.token = tab[t].token /\ r.route = route /\ r.text = text
  BY RequestType DEF NoRequest, AllRequests, Places, Routes, Credentials
<1>2. Send(t, r)
  BY DEF Post
<1> HIDE DEF r
<1> QED
  BY <1>1, <1>2, SendInv

LEMMA ActInv == ASSUME IInv, NEW t \in Tabs, Act(t) PROVE IInv'
<1>1. t \in editing => /\ tab[t].form \in {"view", "lock"}
                       /\ tab[t].form = "lock" => tab[t].draft
  BY DEF IInv, DraftTravels, DraftKept
<1>2. ASSUME NEW route \in {"index", "key"}, Open(t, route)
      PROVE  IInv'
  BY <1>2, OpenInv DEF Routes
<1>3. CASE Create(t)
  <2>1. t \notin editing /\ editing' = editing
    BY <1>1, <1>3 DEF Create
  <2>2. PICK text \in BOOLEAN : Post(t, "generate", "none", text)
    BY <1>3 DEF Create
  <2> QED
    BY <2>1, <2>2, PostInv DEF Routes, Credentials
<1>4. CASE Unlock(t)
  <2>1. tab[t].form = "lock" /\ editing' = editing
    BY <1>4 DEF Unlock
  <2>2. PICK credential \in {"right", "wrong"} : Post(t, "key", credential, tab[t].draft)
    BY <1>4 DEF Unlock
  <2> QED
    BY <1>1, <2>1, <2>2, RequestType, PostInv DEF Routes, Credentials
<1>5. CASE Edit(t)
  <2>1. PICK text \in BOOLEAN :
           /\ Post(t, "key", "none", text)
           /\ editing' = IF text THEN editing \cup {t} ELSE editing \ {t}
    BY <1>5 DEF Edit
  <2>2. tab[t].form = "view" /\ (t \in editing' => text)
    BY <1>5, <2>1 DEF Edit
  <2> QED
    BY <2>1, <2>2, PostInv DEF Routes, Credentials
<1>6. CASE Confirm(t)
  <2>1. t \notin editing /\ editing' = editing
    BY <1>1, <1>6 DEF Confirm
  <2>2. PICK credential \in {"right", "wrong"} : Post(t, "setup", credential, tab[t].draft)
    BY <1>6 DEF Confirm
  <2> QED
    BY <2>1, <2>2, RequestType, PostInv DEF Routes, Credentials
<1> QED
  BY <1>2, <1>3, <1>4, <1>5, <1>6 DEF Act

-----------------------------------------------------------------------------
(* Time, restarts, and the theorems *)

LEMMA AdvanceInv == ASSUME IInv, Advance PROVE IInv'
<1>1. \A l \in Limits, a \in IPs :
         Older(limiter[l][a]) \in SUBSET Grants /\ IsFiniteSet(Older(limiter[l][a]))
  BY OlderType, TypeParts DEF IInv, FiniteGrants, Limiters
<1>2. limiter' = [l \in Limits |-> [a \in IPs |-> Older(limiter[l][a])]]
  BY DEF Advance
<1>3. limiter' \in Limiters /\ FiniteGrants'
  BY <1>1, <1>2 DEF Limiters, FiniteGrants
<1>4. UNCHANGED <<tokens, tab, request, spent, editing, restarts>>
  BY DEF Advance
<1>5. TypeOK'
  BY <1>3, <1>4, TypeParts DEF IInv, TypeOK, Limiters, Pages, AllRequests, Answers, Places
<1> QED
  BY <1>3, <1>4, <1>5
  DEF IInv, FormsCarryTokens, OwnTokens, FormsAreLive, DraftTravels, DraftKept

LEMMA RestartInv == ASSUME IInv, Restart PROVE IInv'
<1>1. /\ limiter' = [l \in Limits |-> [a \in IPs |-> {}]]
      /\ tokens' = [k \in Tokens |-> None]
      /\ request' = [t \in Tabs |-> NoRequest]
      /\ spent' = Tabs
      /\ restarts' = restarts + 1 /\ restarts < MaxRestarts
      /\ UNCHANGED <<tab, editing>>
  BY DEF Restart
<1>2. limiter' \in Limiters /\ FiniteGrants'
  BY <1>1, FS_EmptySet DEF Limiters, FiniteGrants
<1>3. TypeOK'
  <2>1. request' \in [Tabs -> AllRequests]
    BY <1>1, NoRequestType
  <2>2. restarts' \in 0 .. MaxRestarts
    BY <1>1, TypeParts, ServerAssumption DEF IInv
  <2> QED
    BY <1>1, <1>2, <2>1, <2>2, TypeParts
    DEF IInv, TypeOK, Limiters, Pages, AllRequests, Answers, Places
<1>4. editing \subseteq Tabs
  BY TypeParts DEF IInv
<1> QED
  BY <1>1, <1>2, <1>3, <1>4
  DEF IInv, FormsCarryTokens, OwnTokens, FormsAreLive, DraftTravels, DraftKept, NoRequest

LEMMA InitInv == ASSUME Init PROVE IInv
<1>1. limiter \in Limiters /\ FiniteGrants
  BY FS_EmptySet DEF Init, Limiters, FiniteGrants
<1>2. request \in [Tabs -> AllRequests] /\ tab \in [Tabs -> Pages]
  BY NoRequestType DEF Init, Blank, Pages, Forms, Answers
<1>3. TypeOK
  BY <1>1, <1>2, ServerAssumption
  DEF Init, TypeOK, Limiters, Pages, AllRequests, Answers, Places
<1> QED
  BY <1>1, <1>3
  DEF Init, IInv, FormsCarryTokens, OwnTokens, FormsAreLive, DraftTravels, DraftKept,
      NoRequest, Blank

LEMMA NextInv == IInv /\ [Next]_vars => IInv'
<1> SUFFICES ASSUME IInv, [Next]_vars PROVE IInv'
  OBVIOUS
<1>1. ASSUME NEW t \in Tabs, Serve(t) \/ Act(t) PROVE IInv'
  BY <1>1, ServeInv, ActInv
<1>2. CASE UNCHANGED vars
  BY <1>2 DEF vars, IInv, TypeOK, FiniteGrants, FormsCarryTokens, OwnTokens, FormsAreLive,
              DraftTravels, DraftKept
<1> QED
  BY <1>1, <1>2, AdvanceInv, RestartInv DEF Next

THEOREM Invariance == Spec => []IInv
BY InitInv, NextInv, PTL DEF Spec

\* The variables of the server keep their types.
THEOREM TypeCorrect == Spec => []TypeOK
<1>1. IInv => TypeOK
  BY DEF IInv
<1> QED
  BY <1>1, Invariance, PTL

\* A form is good until a handler has had it, whatever is refused on the way.
THEOREM FormsStayGood == Spec => []FormsAreLive
<1>1. IInv => FormsAreLive
  BY DEF IInv
<1> QED
  BY <1>1, Invariance, PTL

\* A text to be saved is in every page that asks for the credential.
THEOREM DraftStays == Spec => []DraftKept
<1>1. IInv => DraftKept
  BY DEF IInv
<1> QED
  BY <1>1, Invariance, PTL

-----------------------------------------------------------------------------
(* Failed attempts: users who are alone at their addresses are not told to *)
(* wait for a second mistake that they did not make.                       *)

\* Nobody else uses the address of a careful user: an office behind one
\* address shares its failed attempts.
AloneAtAddress == \A t \in Careful, u \in Tabs : LimitByIP(u) = LimitByIP(t) => u = t

\* A careful user has been to the entry and nowhere else.
AtTheEntry(t) ==
    /\ tab[t].form \in {"none", "lock", "view"}
    /\ tab[t].form # "none" => tab[t].token # None
    /\ request[t].at # "nowhere" => request[t].route = "key"
    /\ tab[t].answer # "limited"

\* While a failed attempt counts, the page says so and the token in it is good;
\* the right credential is all that such a user sends then.
Atoning(t) ==
    Granted("failed", t) # {} =>
        /\ tab[t].form = "lock" /\ tab[t].answer = "wrong" /\ t \notin spent
        /\ request[t].at # "nowhere" => request[t].post /\ request[t].credential = "right"

Forgiving == \A t \in Careful : AtTheEntry(t) /\ Atoning(t)

\* A step changes one careful user's affairs at most.
LEMMA OthersForgiven ==
    ASSUME AloneAtAddress, Forgiving, NEW t \in Tabs,
           \A u \in Tabs \ {t} : tab'[u] = tab[u] /\ request'[u] = request[u],
           \A u \in Tabs \ {t} : u \in spent' => u \in spent,
           \A a \in IPs \ {LimitByIP(t)} : limiter'["failed"][a] = limiter["failed"][a],
           t \in Careful => AtTheEntry(t)' /\ Atoning(t)'
    PROVE  Forgiving'
<1> SUFFICES ASSUME NEW u \in Careful, u # t
             PROVE  AtTheEntry(u)' /\ Atoning(u)'
  BY DEF Forgiving
<1>1. u \in Tabs \ {t}
  BY ServerAssumption
<1>2. LimitByIP(u) \in IPs \ {LimitByIP(t)}
  BY <1>1, ClientType DEF AloneAtAddress
<1>3. Granted("failed", u)' = Granted("failed", u)
  BY <1>2 DEF Granted, LimitByIP
<1>4. AtTheEntry(u) /\ Atoning(u)
  BY DEF Forgiving
<1> QED
  BY <1>1, <1>3, <1>4 DEF AtTheEntry, Atoning

\* What recording and resetting do to the failed attempts of the others.
LEMMA LimitersOfOthers ==
    ASSUME IInv, NEW t \in Tabs, NEW l \in Limits,
           Record(l, t) \/ Reset(l, t) \/ UNCHANGED limiter
    PROVE  /\ \A a \in IPs \ {LimitByIP(t)} : limiter'["failed"][a] = limiter["failed"][a]
           /\ l # "failed" => limiter'["failed"] = limiter["failed"]
           /\ Reset(l, t) => limiter'[l][LimitByIP(t)] = {}
<1> DEFINE a == LimitByIP(t)
<1>1. limiter \in Limiters /\ a \in IPs
  BY ClientType, TypeParts DEF IInv
<1> HIDE DEF a
<1>2. ASSUME NEW g, limiter' = [limiter EXCEPT ![l][a] = g]
      PROVE  /\ \A b \in IPs \ {a} : limiter'["failed"][b] = limiter["failed"][b]
             /\ l # "failed" => limiter'["failed"] = limiter["failed"]
             /\ limiter'[l][a] = g
  BY <1>1, <1>2 DEF Limiters, Limits
<1>3. CASE Record(l, t)
  <2> DEFINE g == Recorded(limiter[l][a])
  <2>1. limiter' = [limiter EXCEPT ![l][a] = g]
    BY <1>3 DEF Record, a
  <2> HIDE DEF g
  <2>2. /\ \A b \in IPs \ {a} : limiter'["failed"][b] = limiter["failed"][b]
        /\ l # "failed" => limiter'["failed"] = limiter["failed"]
    BY <1>2, <2>1
  <2>3. Reset(l, t) => limiter'[l][a] = {}
    <3> SUFFICES ASSUME Reset(l, t) PROVE limiter'[l][a] = {}
      OBVIOUS
    <3>1. limiter' = [limiter EXCEPT ![l][a] = {}]
      BY DEF Reset, a
    <3> QED
      BY <1>2, <3>1
  <2> QED
    BY <2>2, <2>3 DEF a
<1>4. CASE Reset(l, t)
  <2>1. limiter' = [limiter EXCEPT ![l][a] = {}]
    BY <1>4 DEF Reset, a
  <2> QED
    BY <1>2, <2>1 DEF a
<1>5. CASE UNCHANGED limiter
  <2>1. Reset(l, t) => limiter'[l][a] = {}
    <3> SUFFICES ASSUME Reset(l, t) PROVE limiter'[l][a] = {}
      OBVIOUS
    <3>1. limiter' = [limiter EXCEPT ![l][a] = {}]
      BY DEF Reset, a
    <3> QED
      BY <1>2, <3>1
  <2> QED
    BY <1>5, <2>1 DEF a
<1> QED
  BY <1>3, <1>4, <1>5

\* A page that is not about too many attempts, to somebody who has no failed
\* attempt that counts or is told of the one he has.
LEMMA ShowForgiven ==
    ASSUME AloneAtAddress, IInv, Forgiving, NEW t \in Tabs, NEW form, NEW draft, NEW answer,
           NEW l \in Limits,
           Show(t, form, draft, answer), Record(l, t) \/ Reset(l, t) \/ UNCHANGED limiter,
           t \in Careful => /\ form \in {"lock", "view"} /\ answer # "limited"
                            /\ \/ Granted("failed", t)' = {}
                               \/ form = "lock" /\ answer = "wrong"
    PROVE  Forgiving'
<1> DEFINE page == [form |-> form, token |-> NewToken, draft |-> draft, answer |-> answer]
<1>1. /\ tab' = [tab EXCEPT ![t] = page] /\ request' = [request EXCEPT ![t] = NoRequest]
      /\ spent' = spent \ {t}
  BY DEF Show, Dropped
<1>2. NewToken # None
  BY NewTokenIsFree, ServerAssumption
<1>3. /\ tab'[t] = page /\ request'[t] = NoRequest
      /\ \A u \in Tabs \ {t} : tab'[u] = tab[u] /\ request'[u] = request[u]
  BY <1>1, TypeParts DEF IInv
<1>4. t \in Careful => AtTheEntry(t)' /\ Atoning(t)'
  BY <1>1, <1>2, <1>3 DEF AtTheEntry, Atoning, NoRequest
<1> QED
  BY <1>1, <1>3, <1>4, LimitersOfOthers, OthersForgiven

\* A request goes on or is dropped.
LEMMA GoesOnForgiven ==
    ASSUME AloneAtAddress, IInv, Forgiving, NEW t \in Tabs, NEW r,
           request' = [request EXCEPT ![t] = r],
           r = NoRequest \/ (request[t].at # "nowhere" /\ \E at \in Places : r = [request[t] EXCEPT !.at = at]),
           UNCHANGED <<tab, spent>>, limiter'["failed"] = limiter["failed"]
    PROVE  Forgiving'
<1>1. /\ request'[t] = r /\ request[t] \in AllRequests
      /\ \A u \in Tabs \ {t} : request'[u] = request[u]
  BY TypeParts DEF IInv
<1>2. Granted("failed", t)' = Granted("failed", t)
  BY DEF Granted, LimitByIP
<1>3. r.at # "nowhere" =>
         request[t].at # "nowhere" /\ r.route = request[t].route /\ r.post = request[t].post
         /\ r.credential = request[t].credential
  <2>1. CASE r = NoRequest
    BY <2>1 DEF NoRequest
  <2>2. CASE r # NoRequest
    <3>1. PICK at \in Places : r = [request[t] EXCEPT !.at = at]
      BY <2>2
    <3> QED
      BY <1>1, <2>2, <3>1 DEF AllRequests
  <2> QED
    BY <2>1, <2>2
<1>4. t \in Careful => AtTheEntry(t)' /\ Atoning(t)'
  BY <1>1, <1>2, <1>3 DEF Forgiving, AtTheEntry, Atoning
<1> QED
  BY <1>1, <1>4, OthersForgiven

LEMMA LimitRequestForgiven ==
    ASSUME AloneAtAddress, IInv, Forgiving, NEW t \in Tabs, LimitRequest(t)
    PROVE  Forgiving'
<1> DEFINE next == Inside(t, "limit")
<1>1. next \in Places
  BY TypeParts DEF IInv, AllRequests, Places, Inside, Layers, Middleware
<1> HIDE DEF next
<1>2. UNCHANGED <<tab, spent>> /\ request[t].at = "limit"
  BY DEF LimitRequest
<1>3. limiter'["failed"] = limiter["failed"]
  BY LimitersOfOthers DEF LimitRequest, Limits
<1>4. CASE Goto(t, next)
  <2> DEFINE r == [request[t] EXCEPT !.at = next]
  <2>1. request' = [request EXCEPT ![t] = r]
    BY <1>4, TypeParts DEF IInv, Goto
  <2>2. \E at \in Places : r = [request[t] EXCEPT !.at = at]
    BY <1>1
  <2> HIDE DEF r
  <2> QED
    BY <1>2, <1>3, <2>1, <2>2, GoesOnForgiven DEF r
<1>5. CASE Dropped(t)
  BY <1>2, <1>3, <1>5, GoesOnForgiven DEF Dropped
<1> QED
  BY <1>4, <1>5 DEF LimitRequest, next

\* The token of a page that tells of a failed attempt is still good.
LEMMA LookupTokenForgiven ==
    ASSUME AloneAtAddress, IInv, Forgiving, NEW t \in Tabs, LookupToken(t)
    PROVE  Forgiving'
<1>1. request[t].at = "csrf" /\ request[t].post /\ request[t].token = tab[t].token
  BY DEF LookupToken, IInv, FormsCarryTokens
<1>2. UNCHANGED <<limiter, spent>>
  BY DEF LookupToken
<1>3. CASE Goto(t, "found") /\ UNCHANGED tab
  <2> DEFINE r == [request[t] EXCEPT !.at = "found"]
  <2>1. request' = [request EXCEPT ![t] = r]
    BY <1>3, TypeParts DEF IInv, Goto
  <2>2. \E at \in Places : r = [request[t] EXCEPT !.at = at]
    BY DEF Places
  <2> HIDE DEF r
  <2> QED
    BY <1>1, <1>2, <1>3, <2>1, <2>2, GoesOnForgiven
<1>4. CASE /\ ~(request[t].token # None /\ tokens[request[t].token] = Client[t])
           /\ Dropped(t) /\ tab' = [tab EXCEPT ![t].answer = "refused"]
  <2>1. t \in Careful => Granted("failed", t) = {}
    <3> SUFFICES ASSUME t \in Careful, Granted("failed", t) # {} PROVE FALSE
      OBVIOUS
    <3>1. tab[t].token # None /\ t \notin spent
      BY DEF Forgiving, AtTheEntry, Atoning
    <3>2. tokens[tab[t].token] = Client[t]
      BY <1>1, <3>1 DEF IInv, FormsAreLive
    <3> QED
      BY <1>1, <1>4, <3>1, <3>2
  <2>2. /\ request'[t] = NoRequest /\ tab'[t].form = tab[t].form
        /\ tab'[t].token = tab[t].token /\ tab'[t].answer = "refused"
        /\ \A u \in Tabs \ {t} : tab'[u] = tab[u] /\ request'[u] = request[u]
    BY <1>4, TypeParts DEF IInv, Dropped, Pages
  <2>3. Granted("failed", t)' = Granted("failed", t)
    BY <1>2 DEF Granted, LimitByIP
  <2>4. t \in Careful => AtTheEntry(t)' /\ Atoning(t)'
    BY <2>1, <2>2, <2>3 DEF Forgiving, AtTheEntry, Atoning, NoRequest
  <2> QED
    BY <1>2, <2>2, <2>4, OthersForgiven
<1> QED
  BY <1>3, <1>4 DEF LookupToken

LEMMA DeleteTokenForgiven ==
    ASSUME AloneAtAddress, IInv, Forgiving, NEW t \in Tabs, DeleteToken(t)
    PROVE  Forgiving'
<1> DEFINE next == Inside(t, "csrf")
           r == [request[t] EXCEPT !.at = next]
<1>1. request[t].at = "found" /\ UNCHANGED <<limiter, tab, spent>>
  BY DEF DeleteToken
<1>2. request[t].post
  BY <1>1 DEF IInv, FormsCarryTokens
<1>3. next \in Places
  BY <1>2 DEF Places, Inside, Layers, Middleware
<1> HIDE DEF next
<1>4. request' = [request EXCEPT ![t] = r] /\ \E at \in Places : r = [request[t] EXCEPT !.at = at]
  BY <1>3, TypeParts DEF IInv, DeleteToken, Goto, next
<1> HIDE DEF r
<1> QED
  BY <1>1, <1>4, GoesOnForgiven

\* The other handlers have nobody careful to serve.
LEMMA ElsewhereForgiven ==
    ASSUME AloneAtAddress, IInv, Forgiving, NEW t \in Tabs,
           HandleIndex(t) \/ HandleGenerate(t) \/ HandleSetupTOTP(t)
    PROVE  Forgiving'
<1>1. t \notin Careful
  BY DEF Forgiving, AtTheEntry, HandleIndex, HandleGenerate, HandleSetupTOTP, Handling
<1>2. Record("setup", t) \/ UNCHANGED limiter
  BY DEF HandleIndex, HandleGenerate, HandleSetupTOTP
<1>3. ASSUME NEW route, Redirect(t, route) PROVE Forgiving'
  <2>1. \A u \in Tabs \ {t} : tab'[u] = tab[u] /\ request'[u] = request[u]
    BY <1>3, TypeParts DEF IInv, Redirect
  <2>2. \A u \in Tabs \ {t} : u \in spent' => u \in spent
    BY <1>3 DEF Redirect
  <2>3. \A a \in IPs \ {LimitByIP(t)} : limiter'["failed"][a] = limiter["failed"][a]
    BY <1>2, LimitersOfOthers DEF Limits
  <2> QED
    BY <1>1, <2>1, <2>2, <2>3, OthersForgiven
<1>4. ASSUME NEW form, NEW draft, NEW answer, Show(t, form, draft, answer) PROVE Forgiving'
  BY <1>1, <1>2, <1>4, ShowForgiven DEF Limits
<1> QED
  BY <1>3, <1>4 DEF HandleIndex, HandleGenerate, HandleSetupTOTP

\* With the right credential the failed attempts are gone; who sends another,
\* or none, has no failed attempt yet.
LEMMA ViewForgiven ==
    ASSUME AloneAtAddress, IInv, Forgiving, NEW t \in Tabs,
           ViewGet(t) \/ ViewTextOnly(t) \/ ViewRight(t) \/ ViewWrong(t)
    PROVE  Forgiving'
<1>1. ASSUME t \in Careful, ~(request[t].post /\ request[t].credential = "right")
      PROVE  Granted("failed", t) = {}
  BY <1>1 DEF Forgiving, Atoning, ViewGet, ViewTextOnly, ViewRight, ViewWrong, Handling
<1>2. Granted("failed", t)' = limiter'["failed"][LimitByIP(t)]
  BY DEF Granted, LimitByIP
<1>3. CASE ViewGet(t)
  <2>1. Show(t, "lock", FALSE, "ok") /\ UNCHANGED limiter /\ ~request[t].post
    BY <1>3 DEF ViewGet, Handling
  <2> QED
    BY <1>1, <1>2, <2>1, ShowForgiven DEF Granted, Limits
<1>4. CASE ViewTextOnly(t)
  <2>1. Show(t, "lock", TRUE, "ok") /\ UNCHANGED limiter /\ request[t].credential = "none"
    BY <1>4 DEF ViewTextOnly
  <2> QED
    BY <1>1, <1>2, <2>1, ShowForgiven DEF Granted, Limits
<1>5. CASE ViewRight(t)
  <2>1. Reset("failed", t) /\ Show(t, "view", FALSE, "ok")
    BY <1>5 DEF ViewRight
  <2>2. Granted("failed", t)' = {}
    BY <1>2, <2>1, LimitersOfOthers DEF Limits
  <2> QED
    BY <2>1, <2>2, ShowForgiven DEF Limits
<1>6. CASE ViewWrong(t)
  <2>1. request[t].credential # "right"
    BY <1>6 DEF ViewWrong
  <2>2. t \in Careful => Allowed("failed", t)
    <3>1. t \in Careful => Cardinality(Granted("failed", t)) = 0
      BY <1>1, <2>1, FS_EmptySet
    <3> QED
      BY <3>1, ServerAssumption DEF Allowed, Max
  <2>3. CASE Allowed("failed", t)
    <3>1. Record("failed", t) /\ Show(t, "lock", request[t].text, "wrong")
      BY <1>6, <2>3 DEF ViewWrong
    <3> QED
      BY <3>1, ShowForgiven DEF Limits
  <2>4. CASE ~Allowed("failed", t)
    <3>1. UNCHANGED limiter /\ Show(t, "lock", request[t].text, "limited") /\ t \notin Careful
      BY <1>6, <2>2, <2>4 DEF ViewWrong
    <3> QED
      BY <3>1, ShowForgiven DEF Limits
  <2> QED
    BY <2>3, <2>4
<1> QED
  BY <1>3, <1>4, <1>5, <1>6

LEMMA ServeForgiven ==
    ASSUME AloneAtAddress, IInv, Forgiving, NEW t \in Tabs, Serve(t) PROVE Forgiving'
BY LimitRequestForgiven, LookupTokenForgiven, DeleteTokenForgiven, ElsewhereForgiven, ViewForgiven
DEF Serve

LEMMA ActForgiven ==
    ASSUME AloneAtAddress, IInv, Forgiving, NEW t \in Tabs, Act(t) PROVE Forgiving'
<1>1. ASSUME NEW r \in AllRequests, Send(t, r),
             t \in Careful => /\ r.route = "key"
                              /\ Granted("failed", t) # {} => r.post /\ r.credential = "right"
      PROVE  Forgiving'
  <2> DEFINE sent == [r EXCEPT !.at = Layers(r.post)[1]]
  <2>1. sent.route = r.route /\ sent.post = r.post /\ sent.credential = r.credential
    BY DEF AllRequests
  <2>2. request' = [request EXCEPT ![t] = sent] /\ UNCHANGED <<tab, limiter, spent>>
    BY <1>1 DEF Send
  <2> HIDE DEF sent
  <2>3. request'[t] = sent /\ \A u \in Tabs \ {t} : request'[u] = request[u]
    BY <2>2, TypeParts DEF IInv
  <2>4. Granted("failed", t)' = Granted("failed", t)
    BY <2>2 DEF Granted, LimitByIP
  <2>5. t \in Careful => AtTheEntry(t)' /\ Atoning(t)'
    BY <1>1, <2>1, <2>2, <2>3, <2>4 DEF Forgiving, AtTheEntry, Atoning
  <2> QED
    BY <2>2, <2>3, <2>5, OthersForgiven
<1>2. ASSUME NEW route \in {"index", "key"}, Open(t, route)
      PROVE  Forgiving'
  <2> DEFINE r == [NoRequest EXCEPT !.route = route]
  <2>1. r \in AllRequests /\ r.route = route /\ Send(t, r)
    BY <1>2, NoRequestType DEF Open, NoRequest, AllRequests, Routes
  <2>2. t \in Careful => route = "key" /\ Granted("failed", t) = {}
    BY <1>2 DEF Open, Forgiving, Atoning
  <2> HIDE DEF r
  <2> QED
    BY <1>1, <2>1, <2>2
<1>3. ASSUME NEW route \in Routes, NEW credential \in Credentials, NEW text \in BOOLEAN,
             Post(t, route, credential, text),
             t \in Careful => route = "key",
             t \in Careful /\ tab[t].form = "lock" => credential \in {"right", "wrong"}
      PROVE  Forgiving'
  <2> DEFINE r == [NoRequest EXCEPT !.post = TRUE, !.route = route, !.token = tab[t].token,
                                 !.credential = credential, !.text = text]
  <2>1. tab[t].token \in Tokens \cup {None}
    BY RequestType
  <2>2. r \in AllRequests /\ r.route = route /\ r.post /\ r.credential = credential /\ Send(t, r)
    BY <1>3, <2>1 DEF Post, NoRequest, AllRequests, Places
  <2>3. t \in Careful /\ Granted("failed", t) # {} => credential = "right"
    BY <1>3 DEF Post, Forgiving, Atoning
  <2> HIDE DEF r
  <2> QED
    BY <1>1, <1>3, <2>2, <2>3
<1>4. t \in Careful => tab[t].form \in {"none", "lock", "view"}
  BY DEF Forgiving, AtTheEntry
<1>5. tab[t].draft \in BOOLEAN
  BY RequestType
<1>6. CASE Create(t)
  BY <1>3, <1>4, <1>6 DEF Create, Routes, Credentials
<1>7. CASE Unlock(t)
  BY <1>3, <1>5, <1>7 DEF Unlock, Routes, Credentials
<1>8. CASE Edit(t)
  BY <1>3, <1>8 DEF Edit, Routes, Credentials
<1>9. CASE Confirm(t)
  BY <1>3, <1>4, <1>5, <1>9 DEF Confirm, Routes, Credentials
<1> QED
  BY <1>2, <1>6, <1>7, <1>8, <1>9 DEF Act

\* Attempts only get older, and a restart forgets them all.
LEMMA AdvanceForgiven == ASSUME IInv, Forgiving, Advance \/ Restart PROVE Forgiving'
<1> SUFFICES ASSUME NEW t \in Careful PROVE AtTheEntry(t)' /\ Atoning(t)'
  BY DEF Forgiving
<1>1. AtTheEntry(t) /\ Atoning(t) /\ t \in Tabs
  BY ServerAssumption DEF Forgiving
<1>2. LimitByIP(t) \in IPs /\ "failed" \in Limits
  BY <1>1, ClientType DEF Limits
<1>3. Granted("failed", t)' = limiter'["failed"][LimitByIP(t)]
  BY DEF Granted, LimitByIP
<1>4. CASE Advance
  <2>1. Granted("failed", t)' = Older(Granted("failed", t))
    BY <1>2, <1>3, <1>4 DEF Advance, Granted
  <2>2. Granted("failed", t) = {} => Granted("failed", t)' = {}
    BY <2>1 DEF Older
  <2> QED
    BY <1>1, <1>4, <2>2 DEF Advance, AtTheEntry, Atoning
<1>5. CASE Restart
  <2>1. Granted("failed", t)' = {} /\ request'[t] = NoRequest /\ UNCHANGED tab
    BY <1>1, <1>2, <1>3, <1>5 DEF Restart
  <2> QED
    BY <1>1, <2>1 DEF AtTheEntry, Atoning, NoRequest
<1> QED
  BY <1>4, <1>5

\* A user alone at an address, who knows the credential and does not mistype it
\* twice in a row, is never told to wait: handleView asks the limiter before it
\* counts an attempt, and each success resets it.
THEOREM TyposAreForgiven == ASSUME AloneAtAddress PROVE Spec => []TypoForgiven
<1>1. Init => Forgiving
  <2> SUFFICES ASSUME Init, NEW t \in Careful PROVE AtTheEntry(t) /\ Atoning(t)
    BY DEF Forgiving
  <2>1. t \in Tabs
    BY ServerAssumption
  <2>2. LimitByIP(t) \in IPs /\ "failed" \in Limits
    BY <2>1, ClientType DEF Limits
  <2>3. Granted("failed", t) = {} /\ tab[t] = Blank /\ request[t] = NoRequest
    BY <2>1, <2>2 DEF Init, Granted
  <2> QED
    BY <2>3 DEF AtTheEntry, Atoning, Blank, NoRequest
<1>2. IInv /\ Forgiving /\ [Next]_vars => Forgiving'
  <2> SUFFICES ASSUME IInv, Forgiving, [Next]_vars PROVE Forgiving'
    OBVIOUS
  <2>1. ASSUME NEW t \in Tabs, Serve(t) \/ Act(t) PROVE Forgiving'
    BY <2>1, ServeForgiven, ActForgiven
  <2>2. CASE UNCHANGED vars
    BY <2>2 DEF vars, Forgiving, AtTheEntry, Atoning, Granted, LimitByIP
  <2> QED
    BY <2>1, <2>2, AdvanceForgiven DEF Next
<1>3. Forgiving => TypoForgiven
  BY DEF Forgiving, AtTheEntry, TypoForgiven
<1> QED
  BY <1>1, <1>2, <1>3, Invariance, PTL DEF Spec
=============================================================================
