---- MODULE GatewayAuth ----
(***************************************************************************)
(* Login and sessions of the gateway: processes that are started, killed   *)
(* and started again, where each finds the key it signs cookies with, and  *)
(* the browsers that log in and come back with their cookie.               *)
(*                                                                         *)
(* A cookie is the key it was signed with and its expiry in whole seconds. *)
(* HMAC is taken for granted: without the key there is no signature.  The  *)
(* limiter that may refuse a login is LoginLimiter's business.             *)
(***************************************************************************)
EXTENDS Naturals

CONSTANTS
    Gateways,  \* gateway containers; each has a secret file of its own
    Browsers,
    Setups,    \* flags and environment a gateway may be started with
    Words,     \* passwords: those configured and those typed
    Ttl,       \* GATEWAY_TTL_MINUTES, in ticks of the clock
    Horizon,   \* bound: the clock stops here
    MaxKeys,   \* bound: random keys generated in a run
    None

Explicit == 0          \* the value of GATEWAY_SECRET
Keys == 0..MaxKeys
Times == 0..Horizon

\* source:   where the key comes from: -secret, -secret-file or neither
\* password: None when GATEWAY_PASSWORD is empty
\* tls:      how many of certificate and key are set
\* landing:  no landing page is configured, one that opens, or one that does not
Setup == [source : {"explicit", "file", "random"}, password : Words \cup {None},
          tls : 0..2, landing : {"unset", "there", "missing"}]

ASSUME SetupsAssumption == Setups \subseteq Setup
ASSUME BoundsAssumption == Ttl \in Nat \ {0} /\ Horizon \in Nat /\ MaxKeys \in Nat
ASSUME NoneAssumption == None \notin Keys \cup Words

VARIABLES
    clock,
    drawn,    \* random keys generated so far
    file,     \* gateway to the key in its secret file; None: absent or empty
    gate,     \* gateway to its process: what it does next, its setup and key
    conn,     \* browser to the request it waits for, or None
    jar,      \* browser to its cookie, or None
    inside,   \* browser to what it is proxied to, or None
    logins,   \* history: browser to the seconds at which it gave the password
    welcomed  \* history: browsers that this life of the gateway gave a cookie

vars == <<clock, drawn, file, gate, conn, jar, inside, logins, welcomed>>

Off(g) == [gate EXCEPT ![g] = [pc |-> "down", setup |-> None, key |-> None]]

Init ==
    /\ clock = 0 /\ drawn = 0
    /\ file = [g \in Gateways |-> None]
    /\ gate = [g \in Gateways |-> [pc |-> "down", setup |-> None, key |-> None]]
    /\ conn = [b \in Browsers |-> None]
    /\ jar = [b \in Browsers |-> None]
    /\ inside = [b \in Browsers |-> None]
    /\ logins = [b \in Browsers |-> {}]
    /\ welcomed = [g \in Gateways |-> {}]

users == <<conn, jar, inside, logins>>

Tick ==
    /\ clock < Horizon
    /\ clock' = clock + 1
    /\ UNCHANGED <<drawn, file, gate, users, welcomed>>

----
(* main and loadConfig: a gateway starts. *)

\* loadConfig refuses half a TLS pair, an empty password and a landing page
\* it cannot open; main then exits.
Accepts(s) ==
    /\ s.tls # 1
    /\ s.password # None
    /\ s.landing # "missing"

Start(g, s) ==
    /\ gate[g].pc = "down"
    /\ Accepts(s)
    /\ gate' = [gate EXCEPT ![g] = [pc |-> "secret", setup |-> s, key |-> None]]
    /\ welcomed' = [welcomed EXCEPT ![g] = {}]
    /\ UNCHANGED <<clock, drawn, file, users>>

Source(g) == gate[g].setup.source

\* The gateway goes on at pc with key k.
Proceed(g, pc, k) == gate' = [gate EXCEPT ![g].pc = pc, ![g].key = k]

\* randomSecret.
Draw(g, pc) ==
    /\ drawn < MaxKeys
    /\ drawn' = drawn + 1
    /\ Proceed(g, pc, drawn + 1)

\* Seeded fault: an empty secret file is read as the key.
ReadsEmpty(g) ==
    /\ gate[g].pc = "secret"
    /\ IF Source(g) = "random" THEN Draw(g, "listen")
       ELSE /\ Proceed(g, "listen", IF Source(g) = "explicit" THEN Explicit ELSE file[g])
            /\ UNCHANGED drawn
    /\ UNCHANGED <<clock, file, users, welcomed>>

\* Seeded fault: a fresh key is written at every start.
AlwaysFresh(g) ==
    /\ gate[g].pc = "secret"
    /\ IF Source(g) = "explicit"
       THEN Proceed(g, "listen", Explicit) /\ UNCHANGED drawn
       ELSE Draw(g, IF Source(g) = "file" THEN "truncate" ELSE "listen")
    /\ UNCHANGED <<clock, file, users, welcomed>>

\* Seeded fault: a key left in the default file is used unasked.
ReadsUnasked(g) ==
    /\ gate[g].pc = "secret"
    /\ IF Source(g) = "explicit"
       THEN Proceed(g, "listen", Explicit) /\ UNCHANGED drawn
       ELSE IF file[g] # None
       THEN Proceed(g, "listen", file[g]) /\ UNCHANGED drawn
       ELSE Draw(g, IF Source(g) = "file" THEN "truncate" ELSE "listen")
    /\ UNCHANGED <<clock, file, users, welcomed>>

\* resolveSecret: an explicit value, else what the file holds, else a random
\* key, which a configured file is to hold from then on.
ResolveSecret(g) ==
    /\ gate[g].pc = "secret"
    /\ IF Source(g) = "explicit"
       THEN Proceed(g, "listen", Explicit) /\ UNCHANGED drawn
       ELSE IF Source(g) = "file" /\ file[g] # None
       THEN Proceed(g, "listen", file[g]) /\ UNCHANGED drawn
       ELSE Draw(g, IF Source(g) = "file" THEN "truncate" ELSE "listen")
    /\ UNCHANGED <<clock, file, users, welcomed>>

\* os.WriteFile truncates the file ...
Truncate(g) ==
    /\ gate[g].pc = "truncate"
    /\ file' = [file EXCEPT ![g] = None]
    /\ Proceed(g, "write", gate[g].key)
    /\ UNCHANGED <<clock, drawn, users, welcomed>>

\* ... and writes the key.
WriteSecret(g) ==
    /\ gate[g].pc = "write"
    /\ file' = [file EXCEPT ![g] = gate[g].key]
    /\ Proceed(g, "listen", gate[g].key)
    /\ UNCHANGED <<clock, drawn, users, welcomed>>

Listen(g) ==
    /\ gate[g].pc = "listen"
    /\ Proceed(g, "up", gate[g].key)
    /\ UNCHANGED <<clock, drawn, file, users, welcomed>>

\* The process ends: it is killed or stopped, or a read or write of the secret
\* file or the listener fails, which is fatal.  Its connections go with it.
Exit(g) ==
    /\ gate[g].pc # "down"
    /\ gate' = Off(g)
    /\ conn' = [b \in Browsers |->
                  IF conn[b] # None /\ conn[b].gate = g THEN None ELSE conn[b]]
    /\ inside' = [b \in Browsers |->
                    IF inside[b] # None /\ inside[b].gate = g THEN None ELSE inside[b]]
    /\ UNCHANGED <<clock, drawn, file, jar, logins, welcomed>>

----
(* The handlers. *)

Waits(b, step) == conn[b] # None /\ conn[b].step = step

\* POST /login with a password.
Submit(b, g, w) ==
    /\ conn[b] = None /\ gate[g].pc = "up"
    /\ conn' = [conn EXCEPT ![b] = [gate |-> g, step |-> "login", word |-> w]]
    /\ UNCHANGED <<clock, drawn, file, gate, jar, inside, logins, welcomed>>

\* loginSubmit without a cookie: the limiter or the password refuses.
LoginRefused(b) ==
    /\ Waits(b, "login")
    /\ conn' = [conn EXCEPT ![b] = None]
    /\ UNCHANGED <<clock, drawn, file, gate, jar, inside, logins, welcomed>>

\* loginSubmit with the right password: the cookie is signed and sent.
LoginAccepted(b) ==
    LET g == conn[b].gate
    IN  /\ Waits(b, "login")
        /\ conn[b].word = gate[g].setup.password
        /\ conn' = [conn EXCEPT ![b] =
                      [gate |-> g, step |-> "cookie",
                       cookie |-> [key |-> gate[g].key, exp |-> clock + Ttl,
                                   by |-> g, source |-> Source(g)]]]
        /\ logins' = [logins EXCEPT ![b] = @ \cup {clock}]
        /\ welcomed' = [welcomed EXCEPT ![g] = @ \cup {b}]
        /\ UNCHANGED <<clock, drawn, file, gate, jar, inside>>

\* The browser stores the cookie ...
CookieStored(b) ==
    /\ Waits(b, "cookie")
    /\ jar' = [jar EXCEPT ![b] = conn[b].cookie]
    /\ conn' = [conn EXCEPT ![b] = None]
    /\ UNCHANGED <<clock, drawn, file, gate, inside, logins, welcomed>>

\* ... and forgets it after MaxAge, or when its user clears it.
CookieForgotten(b) ==
    /\ jar[b] # None
    /\ jar' = [jar EXCEPT ![b] = None]
    /\ UNCHANGED <<clock, drawn, file, gate, conn, inside, logins, welcomed>>

\* A request for /, /ide/ or /term/ with the cookie the browser has.
Ask(b, g) ==
    /\ conn[b] = None /\ gate[g].pc = "up"
    /\ jar[b] # None
    /\ conn' = [conn EXCEPT ![b] = [gate |-> g, step |-> "ask", cookie |-> jar[b]]]
    /\ UNCHANGED <<clock, drawn, file, gate, jar, inside, logins, welcomed>>

\* Seeded fault: a cookie is good in the second it expires, too.
ValidAtExpiry(g, c) == c.key = gate[g].key /\ c.exp >= clock

\* validToken.
ValidToken(g, c) == c.key = gate[g].key /\ c.exp > clock

\* requireAuth lets the request through; what it opens, a websocket say, may
\* outlive the cookie.
Enter(b) ==
    /\ Waits(b, "ask")
    /\ ValidToken(conn[b].gate, conn[b].cookie)
    /\ inside' = [inside EXCEPT ![b] = [gate |-> conn[b].gate, at |-> clock]]
    /\ conn' = [conn EXCEPT ![b] = None]
    /\ UNCHANGED <<clock, drawn, file, gate, jar, logins, welcomed>>

\* Or redirects it to /login.
TurnedAway(b) ==
    /\ Waits(b, "ask")
    /\ ~ValidToken(conn[b].gate, conn[b].cookie)
    /\ conn' = [conn EXCEPT ![b] = None]
    /\ UNCHANGED <<clock, drawn, file, gate, jar, inside, logins, welcomed>>

\* The page or the stream is closed.
LeaveIDE(b) ==
    /\ inside[b] # None
    /\ inside' = [inside EXCEPT ![b] = None]
    /\ UNCHANGED <<clock, drawn, file, gate, conn, jar, logins, welcomed>>

Next ==
    \/ Tick
    \/ \E g \in Gateways, s \in Setups : Start(g, s)
    \/ \E g \in Gateways :
          ResolveSecret(g) \/ Truncate(g) \/ WriteSecret(g) \/ Listen(g) \/ Exit(g)
    \/ \E b \in Browsers, g \in Gateways, w \in Words : Submit(b, g, w)
    \/ \E b \in Browsers, g \in Gateways : Ask(b, g)
    \/ \E b \in Browsers :
          \/ LoginRefused(b) \/ LoginAccepted(b)
          \/ CookieStored(b) \/ CookieForgotten(b)
          \/ Enter(b) \/ TurnedAway(b) \/ LeaveIDE(b)

Spec == Init /\ [][Next]_vars

----
(* Properties. *)

Cookie == [key : Keys, exp : Nat, by : Gateways, source : {"explicit", "file", "random"}]

Process ==
    [pc : {"down", "secret", "truncate", "write", "listen", "up"},
     setup : Setup \cup {None}, key : Keys \cup {None}]

Request ==
    [gate : Gateways, step : {"login"}, word : Words]
        \cup [gate : Gateways, step : {"cookie", "ask"}, cookie : Cookie]

\* Types of the variables; no gateway listens without a key.
TypeOK ==
    /\ clock \in Times /\ drawn \in 0..MaxKeys
    /\ file \in [Gateways -> Keys \cup {None}]
    /\ gate \in [Gateways -> Process]
    /\ \A g \in Gateways :
          /\ gate[g].pc \in {"down", "secret"} \/ gate[g].key \in Keys
          /\ gate[g].pc = "down" \/ gate[g].setup \in Setup
    /\ conn \in [Browsers -> Request \cup {None}]
    /\ jar \in [Browsers -> Cookie \cup {None}]
    /\ inside \in [Browsers -> [gate : Gateways, at : Times] \cup {None}]
    /\ logins \in [Browsers -> SUBSET Times]
    /\ welcomed \in [Gateways -> SUBSET Browsers]

\* Whoever was let in had given the password of a gateway less than Ttl
\* before, in whatever order gateways have been killed and restarted since.
AdmittedInTime ==
    \A b \in Browsers : inside[b] # None =>
        \E t \in logins[b] : t <= inside[b].at /\ inside[b].at < t + Ttl

\* A gateway that signs with a random key lets in nobody who has not logged in
\* since it started: a restart revokes every session.
RestartRevokes ==
    \A b \in Browsers, g \in Gateways :
        /\ inside[b] # None /\ inside[b].gate = g
        /\ Source(g) = "random"
        => b \in welcomed[g]

\* A cookie signed with the key of a secret file is good until it expires,
\* however often its gateway is killed at any step of its start; one signed
\* with GATEWAY_SECRET is good at every replica that has it.
CookiesSurvive ==
    \A b \in Browsers, g \in Gateways :
        /\ gate[g].pc = "up" /\ jar[b] # None /\ jar[b].exp > clock
        /\ jar[b].source = Source(g)
        /\ Source(g) = "explicit" \/ (Source(g) = "file" /\ jar[b].by = g)
        => ValidToken(g, jar[b])
====
