---------------------------- MODULE MCEntryStore ----------------------------
(***************************************************************************)
(* Constants for TLC.  Texts, passwords and keys are strings here: a and b *)
(* are not protected, p1 and p2 are saved under "pw", t1 and t2 under the  *)
(* TOTP secret "otp"; c is what a wrong password tries to save.            *)
(***************************************************************************)
EXTENDS EntryStore

OneWorker == {"w1"}
TwoWorkers == {"w1", "w2"}

TheTexts == {"a", "b", "c", "p1", "p2", "t1", "t2"}
ThePasswords == {"pw", "bad", "long"}
TheLongPasswords == {"long"}
TheSecrets == {"otp", "other"}
TheSalts == {"s1", "s2", "s3", "s4", "s5"}
TheKeys == {"k1", "k2", "k3", "r1", "r2"}

\* Draws at two lengths, one key of each, then the fallback.
TheRandomKeys == <<{"r1"}, {"r2"}>>

\* Everything collides: all data start at k1.
Colliding == [d \in Data |-> <<"k1", "k2", "k3">>]

\* Each of the data that are used has keys of its own.
Apart == [d \in Data |-> IF d[2] = None THEN <<"k1">> ELSE <<"k2", "k3">>]

\* Enough keys for two requests that create at once.
MoreKeys == {"k1", "k2", "k3", "k4", "k5", "r1", "r2", "r3"}
MoreRandomKeys == <<{"r1"}, {"r2", "r3"}>>
ApartWithRoom ==
    [d \in Data |-> IF d[2] = None THEN <<"k1", "k4">> ELSE <<"k2", "k3", "k5">>]

\* What people send: requests that open key k, and requests that edit it (the
\* text of an edit with a wrong password is no other's).
Views(k) ==
    {GetRequest(k), PostRequest(k, None, "pw", None), PostRequest(k, None, "bad", None)}
TotpViews(k) ==
    {GetRequest(k), PostRequest(k, None, None, "otp"), PostRequest(k, None, None, "other"),
     PostRequest(k, None, "pw", None)}
EditsOf(k) == {PostRequest(k, "p2", "pw", None), PostRequest(k, "c", "bad", None)}
TotpEditsOf(k) == {PostRequest(k, "t2", None, "otp")}
TextOnlyPost(k) == PostRequest(k, "p1", None, None)

Generates == {GenerateRequest("a", None), GenerateRequest("p1", "pw")}
Setups == {SetupRequest("t1", "otp", "otp"), SetupRequest("t1", "otp", "other")}

AllViews == Views("k1") \cup Views("k2") \cup TotpViews("r1")
\* Both create and look; only w1 edits, and only what has a TOTP secret.
CreatorMenu ==
    [w \in TwoWorkers |->
        Generates \cup Setups \cup AllViews
            \cup (IF w = "w1" THEN TotpEditsOf("r1") ELSE {})]

\* Two people edit the entry that w1 has created.
EditorsMenu ==
    [w \in TwoWorkers |->
        {PostRequest("k2", IF w = "w1" THEN "p1" ELSE "p2", "pw", None)}
            \cup (IF w = "w1" THEN {GenerateRequest("p1", "pw")} ELSE {})]

\* Two people save different things that want the same key.
ClashMenu ==
    [w \in TwoWorkers |->
        {GenerateRequest(IF w = "w1" THEN "a" ELSE "b", None), SetupRequest("t1", "otp", "otp")}]

\* One worker creates and edits entries of every kind, the other opens them, and
\* now and then saves a note that wants the key of a note of the first.
\* Public notes start at k1, the others at k2; all go on to k3.
Meeting == [d \in Data |-> <<IF d[2] = None THEN "k1" ELSE "k2", "k3">>]

Changes ==
    Generates \cup Setups \cup {TextOnlyPost("k1"), PostRequest("k1", "p2", "pw", None)}
        \cup EditsOf("k2") \cup TotpEditsOf("r1")
Looks ==
    {GetRequest("k1"), PostRequest("k1", None, "pw", None)} \cup Views("k2")
        \cup {GetRequest("r1"), PostRequest("r1", None, None, "otp"),
              PostRequest("r1", None, None, "other")}

MeetingMenu ==
    [w \in TwoWorkers |->
        IF w = "w1" THEN Changes ELSE Looks \cup {GenerateRequest("b", None)}]

\* One person creates, edits and looks.
OwnerMenu ==
    [w \in OneWorker |->
        {GenerateRequest("p1", "pw"), PostRequest("k2", "p2", "pw", None),
         PostRequest("k2", None, "pw", None)}]

\* The password is too long for bcrypt.
LongMenu ==
    [w \in OneWorker |->
        {GenerateRequest("p1", "long"), PostRequest("k2", None, "long", None)}]

\* A text is shared openly that someone else has put behind a TOTP secret.
SameTextMenu ==
    [w \in OneWorker |->
        {SetupRequest("a", "otp", "otp"), GenerateRequest("a", None), GetRequest("k1")}]
SharedRandomKeys == <<{"k1"}, {"r2"}>>
=============================================================================
