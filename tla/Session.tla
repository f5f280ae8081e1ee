------------------------------ MODULE Session ------------------------------
(***************************************************************************)
(* One installation of the app and the server: registration, the boot of   *)
(* the screens, and the three calls that read or change /me               *)
(* (register_installation.lua, put_profile.lua, routers/v1.py,             *)
(* discovery-controller.js, credentials.js).  A call that the screen has   *)
(* given up may still reach the server, in any order with later ones.      *)
(* What the server stores for a user is the number of profiles saved and   *)
(* of settings of the switch; a larger number is a later value.            *)
(***************************************************************************)
EXTENDS Integers, Sequences

CONSTANTS
    Requests,      \* installation_request_ids the app may draw
    Calls,         \* HTTP calls on their way
    MaxChanges,    \* bound on the mutations the user asks for
    MaxReloads,    \* bound on reloads of the page
    None

VARIABLES
    link,        \* link[r]: the user that install:link:{r} names, or None
    replay,      \* requests whose install:replay key has not expired
    owner,       \* owner[n]: the request that user n was created for
    record,      \* record[n]: user:{n}
    durable,     \* localStorage can be written
    stored,      \* what localStorage holds
    page,        \* the controller's state and the credential store's memory
    current,     \* the `requests` map: the call each scope waits for
    call,        \* the calls on their way
    mutations, reloads,
    acked        \* history: what the server has acknowledged to the screen

serverVars == <<link, replay, owner, record>>
clientVars == <<durable, stored, page, current, acked>>
vars == <<serverVars, clientVars, call, mutations, reloads>>

ASSUME SessionAssumption ==
    /\ MaxChanges \in Nat /\ MaxReloads \in Nat
    /\ None \notin Requests \cup Calls \cup Nat
    /\ None \notin [profile : Nat, discovery : Nat] \cup [user : Nat] \cup [value : Nat]

Users == DOMAIN owner
Me == [profile : Nat, discovery : Nat]
Fresh == [profile |-> 0, discovery |-> 0]
Scopes == {"boot", "me", "mutation"}

NoCall == [kind |-> "none", user |-> None, request |-> None, live |-> FALSE, reply |-> None]
NewPage ==
    [booting |-> TRUE, error |-> FALSE, me |-> None, busy |-> FALSE,
     credential |-> None, request |-> None]

Init ==
    /\ link = [r \in Requests |-> None]
    /\ replay = {}
    /\ owner = <<>>
    /\ record = <<>>
    /\ durable \in BOOLEAN
    /\ stored = [credential |-> None, request |-> None]
    /\ page = NewPage
    /\ current = [s \in Scopes |-> None]
    /\ call = [c \in Calls |-> NoCall]
    /\ mutations = 0 /\ reloads = 0
    /\ acked = Fresh

-----------------------------------------------------------------------------
(***************************************************************************)
(* Calls                                                                   *)
(***************************************************************************)

Sent(kind, user, request) ==
    [kind |-> kind, user |-> user, request |-> request, live |-> TRUE, reply |-> None]

Answered(c) == call[c].reply # None

\* Fault: an answer that is on its way to the screen is still taken.
LetGoUnlessAnswered(x) == IF x.reply = None THEN [x EXCEPT !.live = FALSE] ELSE x

\* The fetch is aborted; the request itself may be on its way.
LetGo(x) == IF x.reply = None /\ x # NoCall THEN [x EXCEPT !.live = FALSE] ELSE NoCall

\* request(): the scope's previous call is aborted and x takes its place.
Call(scope, x) ==
    \E c \in Calls :
        /\ call[c] = NoCall
        /\ current' = [current EXCEPT ![scope] = c]
        /\ call' = [d \in Calls |-> IF d = c THEN x
                                    ELSE IF d = current[scope] THEN LetGo(call[d]) ELSE call[d]]

-----------------------------------------------------------------------------
(***************************************************************************)
(* The server                                                              *)
(***************************************************************************)

Reply(c, value) ==
    call' = [call EXCEPT ![c] = IF @.live THEN [@ EXCEPT !.reply = value] ELSE NoCall]

ToServer(c, kind) == call[c].kind = kind /\ ~Answered(c)

Create(r) ==
    /\ owner' = Append(owner, r)
    /\ record' = Append(record, Fresh)
    /\ link' = [link EXCEPT ![r] = Len(owner) + 1]
    /\ replay' = replay \cup {r}

\* Fault: a request whose replay key has expired registers again.
KnownWhileReplayable(r) == r \in replay

Known(r) == link[r] # None

\* register_installation: created, replayed or expired (user 0 here).
HandleRegister(c) ==
    LET r == call[c].request IN
    /\ ToServer(c, "register")
    /\ \/ /\ ~Known(r)
          /\ Create(r)
          /\ Reply(c, [user |-> Len(owner) + 1])
       \/ /\ Known(r)
          /\ Reply(c, [user |-> IF r \in replay THEN link[r] ELSE 0])
          /\ UNCHANGED serverVars
    /\ UNCHANGED <<clientVars, mutations, reloads>>

ReplayExpires(r) ==
    /\ r \in replay
    /\ replay' = replay \ {r}
    /\ UNCHANGED <<link, owner, record, clientVars, call, mutations, reloads>>

HandleGetMe(c) ==
    /\ ToServer(c, "getMe")
    /\ Reply(c, record[call[c].user])
    /\ UNCHANGED <<serverVars, clientVars, mutations, reloads>>

\* POST /me/profile and POST /me/discovery.
HandleMutation(c, field) ==
    LET new == record[call[c].user][field] + 1 IN
    /\ ToServer(c, field)
    /\ record' = [record EXCEPT ![call[c].user][field] = new]
    /\ Reply(c, [value |-> new])
    /\ UNCHANGED <<link, replay, owner, clientVars, mutations, reloads>>

\* A request nobody waits for never arrives.
Lost(c) ==
    /\ call[c] # NoCall
    /\ ~call[c].live
    /\ call' = [call EXCEPT ![c] = NoCall]
    /\ UNCHANGED <<serverVars, clientVars, mutations, reloads>>

-----------------------------------------------------------------------------
(***************************************************************************)
(* start: the boot of the screens                                          *)
(***************************************************************************)

\* installRequestId(): the one in memory, the stored one, or a new one.
RequestId(r) ==
    IF page.request # None THEN r = page.request
    ELSE IF stored.request # None THEN r = stored.request
    ELSE \A n \in Users : owner[n] # r

\* On mount, on a retry, or when the page becomes visible without a profile.
\* Everything in flight is aborted; `busy` is not reset.
Start ==
    LET credential == IF page.credential # None THEN page.credential ELSE stored.credential
        begin(x) == \E c \in Calls :
            /\ call[c] = NoCall
            /\ current' = [s \in Scopes |-> IF s = "boot" THEN c ELSE None]
            /\ call' = [d \in Calls |-> IF d = c THEN x ELSE LetGo(call[d])]
    IN /\ page.me # None => page.me.profile = 0
       /\ IF credential # None
          THEN /\ begin(Sent("getMe", credential, None))
               /\ page' = [page EXCEPT !.booting = TRUE, !.error = FALSE, !.credential = credential]
               /\ UNCHANGED stored
          ELSE \E r \in Requests :
               /\ RequestId(r)
               /\ begin(Sent("register", None, r))
               /\ page' = [page EXCEPT !.booting = TRUE, !.error = FALSE, !.request = r]
               /\ stored' = IF durable THEN [stored EXCEPT !.request = r] ELSE stored
       /\ UNCHANGED <<serverVars, durable, mutations, reloads, acked>>

Arrives(c, scope) == current[scope] = c /\ Answered(c)

Settled(c, scope) ==
    /\ current' = [current EXCEPT ![scope] = None]
    /\ call' = [call EXCEPT ![c] = NoCall]

\* credentials.set, then getMe within the same request.
Registered(c) ==
    /\ Arrives(c, "boot") /\ call[c].kind = "register" /\ call[c].reply.user # 0
    /\ page' = [page EXCEPT !.credential = call[c].reply.user]
    /\ stored' = IF durable THEN [stored EXCEPT !.credential = call[c].reply.user] ELSE stored
    /\ call' = [call EXCEPT ![c] = Sent("getMe", call[c].reply.user, None)]
    /\ UNCHANGED <<serverVars, durable, current, mutations, reloads, acked>>

Booted(c) ==
    /\ Arrives(c, "boot") /\ call[c].kind = "getMe"
    /\ page' = [page EXCEPT !.me = call[c].reply, !.booting = FALSE]
    /\ Settled(c, "boot")
    /\ UNCHANGED <<serverVars, durable, stored, mutations, reloads, acked>>

\* An error status, no connection, or no answer in time: the request may yet be
\* handled.
GivenUp(c, scope) ==
    /\ current' = [current EXCEPT ![scope] = None]
    /\ call' = [call EXCEPT ![c] = LetGo(@)]

BootFails(c) ==
    /\ current["boot"] = c
    /\ page' = [page EXCEPT !.booting = FALSE, !.error = TRUE]
    /\ GivenUp(c, "boot")
    /\ UNCHANGED <<serverVars, durable, stored, mutations, reloads, acked>>

-----------------------------------------------------------------------------
(***************************************************************************)
(* refreshAll, saveProfile, setDiscovery                                   *)
(***************************************************************************)

RefreshMe ==
    /\ page.me # None
    /\ current["me"] = None
    /\ Call("me", Sent("getMe", page.credential, None))
    /\ UNCHANGED <<serverVars, durable, stored, page, mutations, reloads, acked>>

\* applyMe
MeRefreshed(c) ==
    /\ Arrives(c, "me")
    /\ page' = [page EXCEPT !.me = call[c].reply]
    /\ Settled(c, "me")
    /\ UNCHANGED <<serverVars, durable, stored, mutations, reloads, acked>>

RefreshFails(c) ==
    /\ current["me"] = c
    /\ GivenUp(c, "me")
    /\ UNCHANGED <<serverVars, durable, stored, page, mutations, reloads, acked>>

\* The forms are shown when the boot is over, the switch once there is a
\* profile.
Mutate(field) ==
    /\ mutations < MaxChanges
    /\ ~page.booting /\ ~page.error /\ page.me # None
    /\ field = "discovery" => page.me.profile > 0
    /\ ~page.busy
    /\ page' = [page EXCEPT !.busy = TRUE]
    /\ mutations' = mutations + 1
    /\ Call("mutation", Sent(field, page.credential, None))
    /\ UNCHANGED <<serverVars, durable, stored, reloads, acked>>

\* Fault: a /me answer on its way is left alone.
MeKept(c) ==
    /\ current' = [current EXCEPT !["mutation"] = None]
    /\ call' = [call EXCEPT ![c] = NoCall]

\* cancelScope('me'): that answer may be older than this one.
MeCancelled(c) ==
    /\ current' = [current EXCEPT !["mutation"] = None, !["me"] = None]
    /\ call' = [d \in Calls |-> IF d = c THEN NoCall
                                ELSE IF d = current["me"] THEN LetGo(call[d]) ELSE call[d]]

Mutated(c, field) ==
    /\ Arrives(c, "mutation") /\ call[c].kind = field
    /\ page' = [page EXCEPT !.me[field] = call[c].reply.value, !.busy = FALSE]
    /\ acked' = [acked EXCEPT ![field] = call[c].reply.value]
    /\ MeCancelled(c)
    /\ UNCHANGED <<serverVars, durable, stored, mutations, reloads>>

MutationFails(c) ==
    /\ current["mutation"] = c
    /\ page' = [page EXCEPT !.busy = FALSE]
    /\ GivenUp(c, "mutation")
    /\ UNCHANGED <<serverVars, durable, stored, mutations, reloads, acked>>

\* The app is closed and opened again; without localStorage it is a new one.
Reload ==
    /\ reloads < MaxReloads
    /\ reloads' = reloads + 1
    /\ page' = NewPage
    /\ current' = [s \in Scopes |-> None]
    /\ call' = [c \in Calls |-> LetGo(call[c])]
    /\ acked' = IF stored.credential # None THEN acked ELSE Fresh
    /\ UNCHANGED <<serverVars, durable, stored, mutations>>

-----------------------------------------------------------------------------

Fields == {"profile", "discovery"}

ServerStep ==
    \/ \E c \in Calls :
         \/ HandleRegister(c) \/ HandleGetMe(c) \/ Lost(c)
         \/ \E f \in Fields : HandleMutation(c, f)
    \/ \E r \in Requests : ReplayExpires(r)

ClientStep ==
    \/ Start \/ RefreshMe \/ Reload
    \/ \E f \in Fields : Mutate(f)
    \/ \E c \in Calls :
         \/ Registered(c) \/ Booted(c) \/ BootFails(c)
         \/ MeRefreshed(c) \/ RefreshFails(c) \/ MutationFails(c)
         \/ \E f \in Fields : Mutated(c, f)

Next == ServerStep \/ ClientStep

Spec == Init /\ [][Next]_vars

-----------------------------------------------------------------------------

CallType ==
    [kind : {"none", "register", "getMe"} \cup Fields, user : Nat \cup {None},
     request : Requests \cup {None}, live : BOOLEAN,
     reply : {None} \cup Me \cup [user : Nat] \cup [value : Nat]]

\* Each variable holds what the code may put into it; a call that is waited for
\* is one the screen has not given up, and waited for once.
TypeOK ==
    /\ link \in [Requests -> Nat \cup {None}]
    /\ replay \subseteq Requests
    /\ owner \in Seq(Requests) /\ record \in Seq(Me) /\ Len(record) = Len(owner)
    /\ durable \in BOOLEAN
    /\ stored \in [credential : Nat \cup {None}, request : Requests \cup {None}]
    /\ page \in [booting : BOOLEAN, error : BOOLEAN, me : Me \cup {None}, busy : BOOLEAN,
                 credential : Nat \cup {None}, request : Requests \cup {None}]
    /\ current \in [Scopes -> Calls \cup {None}]
    /\ call \in [Calls -> CallType]
    /\ mutations \in 0..MaxChanges /\ reloads \in 0..MaxReloads
    /\ acked \in Me
    /\ \A c \in Calls : call[c].live <=> \E s \in Scopes : current[s] = c

\* A request id makes one user, however often the answer is lost, a boot is
\* superseded, the replay expires or the app restarts; a credential the app holds
\* is that user's.
OneUserPerInstallation ==
    /\ \A m, n \in Users : owner[m] = owner[n] => m = n
    /\ \A held \in {page.credential, stored.credential} :
         held # None => held \in Users /\ link[owner[held]] = held
    /\ page.credential # None /\ page.request # None => owner[page.credential] = page.request

\* What the server has acknowledged to the user stays on the screen: no /me
\* answer that was read before the change undoes it.
AcknowledgedStays ==
    page.me # None => /\ page.me.profile >= acked.profile
                      /\ page.me.discovery >= acked.discovery

=============================================================================
