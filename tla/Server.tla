------------------------------- MODULE Server -------------------------------
(***************************************************************************)
(* The server as its users meet it: browser tabs hold pages with a form,   *)
(* and every request passes the HTTP limiter and the CSRF check before the *)
(* mux hands it to a handler, which asks the limiters of failed attempts   *)
(* and answers with the next page (handlers.go, HTTPLimiter).              *)
(*                                                                         *)
(* One protected entry is looked at; what is in it is EntryStore's matter. *)
(* A limiter is what SlidingWindow says of it, with the age of a grant for *)
(* its time, so that the clock need not stop.  Between the two layers, and *)
(* between the two steps of ValidateToken, other requests run and time     *)
(* passes.  A handler is one step: its calls, each under a lock of its     *)
(* own, concern this client's key and a token nobody else knows.           *)
(***************************************************************************)
EXTENDS Integers, FiniteSets, Sequences

CONSTANTS
    Tabs,           \* what sends requests, one at a time
    Careful,        \* tabs of a user who knows the credential and wants in
    Client,         \* Client[t]: IP address and User-Agent of t
    IP,             \* IP[c]: the address in a client key
    Tokens,         \* CSRF tokens; those in no page and no request are reused
    None,
    MaxRequests,    \* of an address in a window: 60 in the code
    MaxFailed,      \* failed attempts of an address at the entry: 5 or 10
    MaxSetups,      \* attempts of an address to set TOTP up: 10
    Window,         \* instants in a window
    MaxRestarts     \* bound: restarts of the server

Clients == {Client[t] : t \in Tabs}
IPs == {IP[c] : c \in Clients}

ASSUME ServerAssumption ==
    /\ Careful \subseteq Tabs
    /\ IsFiniteSet(Tabs)
    /\ IsFiniteSet(Tokens) /\ Cardinality(Tokens) > Cardinality(Tabs)
    /\ None \notin Tokens \cup Clients
    /\ {MaxRequests, MaxFailed, MaxSetups, Window} \subseteq Nat \ {0}
    /\ MaxRestarts \in Nat

VARIABLES
    tokens,     \* csrfStore: token -> client
    limiter,    \* authHTTPLimiter, passwordRateLimiter or totpRateLimiter by
                \* address and key, totpRateLimiter by address
    tab,        \* the page in each tab
    request,    \* the request of each tab, and how far it has come
    spent,      \* history: tabs whose form a handler has had, or is older than
                \* the server
    editing,    \* history: tabs whose user has sent a text that is not saved yet
    restarts

vars == <<tokens, limiter, tab, request, spent, editing, restarts>>

Limits == {"http", "failed", "setup"}
Forms == {"none", "index", "lock", "view", "setup"}
Routes == {"index", "key", "generate", "setup"}
Credentials == {"none", "right", "wrong"}

Blank == [form |-> "none", token |-> None, draft |-> FALSE, answer |-> "ok"]
NoRequest == [at |-> "nowhere", post |-> FALSE, route |-> "index", token |-> None,
              credential |-> "none", text |-> FALSE]

Grants == (0 .. Window - 1) \X (Nat \ {0})

TypeOK ==
    /\ tokens \in [Tokens -> Clients \cup {None}]
    /\ limiter \in [Limits -> [IPs -> SUBSET Grants]]
    /\ tab \in [Tabs -> [form : Forms, token : Tokens \cup {None}, draft : BOOLEAN,
                         answer : {"ok", "wrong", "limited", "refused"}]]
    /\ request \in [Tabs -> [at : {"nowhere", "limit", "csrf", "found", "handle"},
                             post : BOOLEAN, route : Routes, token : Tokens \cup {None},
                             credential : Credentials, text : BOOLEAN]]
    /\ spent \subseteq Tabs
    /\ editing \subseteq Tabs
    /\ restarts \in 0 .. MaxRestarts

Init ==
    /\ tokens = [k \in Tokens |-> None]
    /\ limiter = [l \in Limits |-> [a \in IPs |-> {}]]
    /\ tab = [t \in Tabs |-> Blank]
    /\ request = [t \in Tabs |-> NoRequest]
    /\ spent = {}
    /\ editing = {}
    /\ restarts = 0

LimitByIP(t) == IP[Client[t]]

-----------------------------------------------------------------------------
(* The limiters: a grant is its age and a number *)

Max(l) == CASE l = "http" -> MaxRequests [] l = "failed" -> MaxFailed [] l = "setup" -> MaxSetups
Granted(l, t) == limiter[l][LimitByIP(t)]
Allowed(l, t) == Cardinality(Granted(l, t)) < Max(l)
Recorded(g) == g \cup {<<0, 1 + Cardinality({x \in g : x[1] = 0})>>}

\* Mutant of Older: one instant too many.
OlderByOne(g) == {<<x[1] + 1, x[2]>> : x \in {y \in g : y[1] < Window}}

\* Mutant of Older: nothing is ever dropped.
OlderDropsNone(g) == g

\* What is still in the window an instant later.
Older(g) == {<<x[1] + 1, x[2]>> : x \in {y \in g : y[1] + 1 < Window}}

Record(l, t) == limiter' = [limiter EXCEPT ![l][LimitByIP(t)] = Recorded(@)]
Reset(l, t) == limiter' = [limiter EXCEPT ![l][LimitByIP(t)] = {}]

\* An instant passes.
Advance ==
    /\ limiter' = [l \in Limits |-> [a \in IPs |-> Older(limiter[l][a])]]
    /\ UNCHANGED <<tokens, tab, request, spent, editing, restarts>>

-----------------------------------------------------------------------------
(* The middleware *)

\* Mutant of Middleware: the layers in the other order.
MiddlewareCsrfFirst == <<"csrf", "limit">>

\* handlerWithMiddleware: the outer layer first.
Middleware == <<"limit", "csrf">>

\* csrfMiddleware has nothing to do for a GET.
Layers(post) == IF post THEN Middleware ELSE <<"limit">>

Inside(t, layer) ==
    LET layers == Layers(request[t].post)
    IN  IF layer = layers[Len(layers)] THEN "handle" ELSE layers[2]

Goto(t, at) == request' = [request EXCEPT ![t].at = at]
Dropped(t) == request' = [request EXCEPT ![t] = NoRequest]

\* HTTPLimiter.Middleware; after "Rate limit exceeded" the browser goes back.
LimitRequest(t) ==
    /\ request[t].at = "limit"
    /\ IF Allowed("http", t)
       THEN Record("http", t) /\ Goto(t, Inside(t, "limit"))
       ELSE Dropped(t) /\ UNCHANGED limiter
    /\ UNCHANGED <<tokens, tab, spent, editing, restarts>>

\* ValidateToken up to the comparison; 403 if it fails.
LookupToken(t) ==
    /\ request[t].at = "csrf"
    /\ IF request[t].token # None /\ tokens[request[t].token] = Client[t]
       THEN Goto(t, "found") /\ UNCHANGED tab
       ELSE Dropped(t) /\ tab' = [tab EXCEPT ![t].answer = "refused"]
    /\ UNCHANGED <<tokens, limiter, spent, editing, restarts>>

\* The rest of ValidateToken.
DeleteToken(t) ==
    /\ request[t].at = "found"
    /\ tokens' = [tokens EXCEPT ![request[t].token] = None]
    /\ Goto(t, Inside(t, "csrf"))
    /\ UNCHANGED <<limiter, tab, spent, editing, restarts>>

-----------------------------------------------------------------------------
(* The handlers *)

Held(users) == {tab[t].token : t \in users} \cup {request[t].token : t \in users}

\* What generateSecureToken returns: a token that nobody holds, whichever.
NewToken == CHOOSE k \in Tokens \ Held(Tabs) : TRUE

\* A token that nobody will hold any more stays in the code's map for ever;
\* here it is made new again.
GenerateToken(t) ==
    tokens' = [k \in Tokens |-> IF k = NewToken THEN Client[t]
                               ELSE IF k \in Held(Tabs \ {t}) THEN tokens[k] ELSE None]

\* The answer is a page with a form and a token of its own.
Show(t, form, draft, answer) ==
    /\ GenerateToken(t)
    /\ tab' = [tab EXCEPT ![t] = [form |-> form, token |-> NewToken, draft |-> draft,
                                  answer |-> answer]]
    /\ spent' = spent \ {t}
    /\ Dropped(t)

\* The answer is a redirect, which the browser follows.
Redirect(t, route) ==
    /\ request' = [request EXCEPT ![t] = [NoRequest EXCEPT !.at = Layers(FALSE)[1],
                                                    !.route = route]]
    /\ spent' = IF request[t].post THEN spent \cup {t} ELSE spent
    /\ UNCHANGED <<tokens, tab>>

Handling(t, route, post) ==
    /\ request[t].at = "handle"
    /\ request[t].route = route
    /\ request[t].post = post

HandleIndex(t) ==
    /\ \E post \in BOOLEAN : Handling(t, "index", post)
    /\ Show(t, "index", FALSE, "ok")
    /\ UNCHANGED <<limiter, editing, restarts>>

\* No text: back to the index; else a secret to set up, or a new entry.
HandleGenerate(t) ==
    /\ \E post \in BOOLEAN : Handling(t, "generate", post)
    /\ IF ~request[t].post \/ ~request[t].text THEN Redirect(t, "index")
       ELSE Redirect(t, "key") \/ Show(t, "setup", TRUE, "ok")
    /\ UNCHANGED <<limiter, editing, restarts>>

\* The limiter comes before the code is looked at, and nothing resets it.
HandleSetupTOTP(t) ==
    /\ Handling(t, "setup", TRUE)
    /\ IF ~Allowed("setup", t)
       THEN Show(t, "setup", request[t].text, "limited") /\ UNCHANGED limiter
       ELSE /\ Record("setup", t)
            /\ IF request[t].credential = "right" THEN Redirect(t, "key")
               ELSE Show(t, "setup", request[t].text, "wrong")
    /\ UNCHANGED <<editing, restarts>>

\* handleView for a GET.
ViewGet(t) ==
    /\ Handling(t, "key", FALSE)
    /\ Show(t, "lock", FALSE, "ok")
    /\ UNCHANGED <<limiter, editing, restarts>>

\* A text and no credential: ask for one, and keep the text.
ViewTextOnly(t) ==
    /\ Handling(t, "key", TRUE)
    /\ request[t].credential = "none" /\ request[t].text
    /\ Show(t, "lock", TRUE, "ok")
    /\ UNCHANGED <<limiter, editing, restarts>>

\* Mutant of ViewRight: failed attempts are not cleared.
ViewRightNoReset(t) ==
    /\ Handling(t, "key", TRUE)
    /\ request[t].credential = "right"
    /\ editing' = IF request[t].text THEN editing \ {t} ELSE editing
    /\ Show(t, "view", FALSE, "ok")
    /\ UNCHANGED <<limiter, restarts>>

\* The credential opens the entry, and the text, if there is one, is saved.
ViewRight(t) ==
    /\ Handling(t, "key", TRUE)
    /\ request[t].credential = "right"
    /\ Reset("failed", t)
    /\ editing' = IF request[t].text THEN editing \ {t} ELSE editing
    /\ Show(t, "view", FALSE, "ok")
    /\ UNCHANGED restarts

\* Mutant of ViewWrong: the page that says "wrong" forgets the text.
ViewWrongForgets(t) ==
    /\ Handling(t, "key", TRUE)
    /\ request[t].credential = "wrong" \/ (request[t].credential = "none" /\ ~request[t].text)
    /\ IF Allowed("failed", t)
       THEN Record("failed", t) /\ Show(t, "lock", FALSE, "wrong")
       ELSE Show(t, "lock", request[t].text, "limited") /\ UNCHANGED limiter
    /\ UNCHANGED <<editing, restarts>>

\* Only now is the limiter asked, and only for which page to show.
ViewWrong(t) ==
    /\ Handling(t, "key", TRUE)
    /\ request[t].credential = "wrong" \/ (request[t].credential = "none" /\ ~request[t].text)
    /\ IF Allowed("failed", t)
       THEN Record("failed", t) /\ Show(t, "lock", request[t].text, "wrong")
       ELSE Show(t, "lock", request[t].text, "limited") /\ UNCHANGED limiter
    /\ UNCHANGED <<editing, restarts>>

Serve(t) ==
    \/ LimitRequest(t) \/ LookupToken(t) \/ DeleteToken(t)
    \/ HandleIndex(t) \/ HandleGenerate(t) \/ HandleSetupTOTP(t)
    \/ ViewGet(t) \/ ViewTextOnly(t) \/ ViewRight(t) \/ ViewWrong(t)

-----------------------------------------------------------------------------
(* The users *)

Send(t, r) ==
    /\ request[t] = NoRequest
    /\ request' = [request EXCEPT ![t] = [r EXCEPT !.at = Layers(r.post)[1]]]
    /\ UNCHANGED <<tokens, limiter, tab, spent, restarts>>

\* A page is opened or loaded again, which gives up what was being written.  A
\* careful user does so when there is no form of the entry, or it was refused.
Open(t, route) ==
    /\ t \in Careful => /\ route = "key"
                        /\ tab[t].form \notin {"lock", "view"} \/ tab[t].answer = "refused"
    /\ Send(t, [NoRequest EXCEPT !.route = route])
    /\ editing' = editing \ {t}

\* What the form in the tab sends.  A careful user may mistype, but not twice
\* in a row.
Post(t, route, credential, text) ==
    /\ t \in Careful => /\ tab[t].answer # "refused"
                        /\ credential = "wrong" => tab[t].answer = "ok"
    /\ Send(t, [NoRequest EXCEPT !.post = TRUE, !.route = route, !.token = tab[t].token,
                                 !.credential = credential, !.text = text])

Create(t) ==
    /\ tab[t].form = "index"
    /\ \E text \in BOOLEAN : Post(t, "generate", "none", text)
    /\ UNCHANGED editing

\* Only a careful user knows the credential.
Unlock(t) ==
    /\ tab[t].form = "lock"
    /\ \E credential \in {"wrong"} \cup (IF t \in Careful THEN {"right"} ELSE {}) :
          Post(t, "key", credential, tab[t].draft)
    /\ UNCHANGED editing

\* An edit that leaves no text is an attempt without a credential.
Edit(t) ==
    /\ tab[t].form = "view"
    /\ \E text \in BOOLEAN :
          /\ Post(t, "key", "none", text)
          /\ editing' = IF text THEN editing \cup {t} ELSE editing \ {t}

Confirm(t) ==
    /\ tab[t].form = "setup"
    /\ \E credential \in {"right", "wrong"} : Post(t, "setup", credential, tab[t].draft)
    /\ UNCHANGED editing

Act(t) ==
    \/ \E route \in {"index", "key"} : Open(t, route)
    \/ Create(t) \/ Unlock(t) \/ Edit(t) \/ Confirm(t)

\* Everything in memory is lost, with the requests under way.
Restart ==
    /\ restarts < MaxRestarts
    /\ restarts' = restarts + 1
    /\ tokens' = [k \in Tokens |-> None]
    /\ limiter' = [l \in Limits |-> [a \in IPs |-> {}]]
    /\ request' = [t \in Tabs |-> NoRequest]
    /\ spent' = Tabs
    /\ UNCHANGED <<tab, editing>>

Next ==
    \/ \E t \in Tabs : Serve(t) \/ Act(t)
    \/ Advance \/ Restart

Spec == Init /\ [][Next]_vars

\* net/http serves every request, time passes, and careful users do not give up.
FairSpec ==
    /\ Spec
    /\ WF_vars(Advance)
    /\ \A t \in Careful : WF_vars(Serve(t)) /\ WF_vars(Act(t))

-----------------------------------------------------------------------------
(* Properties *)

\* A form is good until a handler has had it: its token is accepted from its
\* client, over requests refused by the limiter, other clients' requests and
\* every page made since; only a restart of the server takes it away.
FormsAreLive ==
    \A t \in Tabs :
        \/ tab[t].token = None \/ t \in spent
        \/ request[t].at = "handle" /\ request[t].post
        \/ tokens[tab[t].token] = Client[t]

\* A text that was sent to be saved stays with the user through wrong and
\* limited attempts: the page that asks for the credential has it.
DraftKept == \A t \in editing : tab[t].form = "lock" => tab[t].draft

\* Each success clears the failed attempts: a user who does not fail twice in
\* a row is never told to wait for them, over any number of visits and edits.
TypoForgiven ==
    \A t \in Careful : tab[t].form \in {"lock", "view"} => tab[t].answer # "limited"

\* A careful user gets to see the entry again and again, through refusals of the
\* limiter and restarts of the server, whatever users at other addresses send.
OwnerGetsIn == \A t \in Careful : []<>(tab[t].form = "view")

-----------------------------------------------------------------------------
(* What the proofs of FormsAreLive and DraftKept need beside them *)

FiniteGrants == \A l \in Limits, a \in IPs : IsFiniteSet(limiter[l][a])

\* A form that is sent carries the token of its page, and only forms are checked.
FormsCarryTokens ==
    \A t \in Tabs :
        /\ request[t].token \in {None, tab[t].token}
        /\ request[t].post => request[t].token = tab[t].token
        /\ request[t].at \in {"csrf", "found"} => request[t].post

\* No page shares its token with another.
OwnTokens ==
    \A t, u \in Tabs : tab[t].token = tab[u].token /\ tab[t].token # None => t = u

\* A user with a text to save is on the entry's pages, and sends it each time.
DraftTravels ==
    \A t \in editing :
        /\ tab[t].form \in {"view", "lock"}
        /\ request[t] # NoRequest =>
              request[t].post /\ request[t].route = "key" /\ request[t].text

IInv ==
    /\ TypeOK /\ FiniteGrants
    /\ FormsCarryTokens /\ OwnTokens /\ FormsAreLive
    /\ DraftTravels /\ DraftKept

=============================================================================
