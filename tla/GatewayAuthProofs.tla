---- MODULE GatewayAuthProofs ----
(***************************************************************************)
(* Theorems about GatewayAuth for any number of gateways and browsers, any *)
(* setups, and gateways that are killed and started again at any moment.   *)
(* They rest on one idea: a random key is at one place only, where it was  *)
(* drawn, and whoever holds a cookie signed with it logged in there.       *)
(***************************************************************************)
EXTENDS GatewayAuth, TLAPS

\* Who signs with a random key.
Random(g) == gate[g].pc \in {"listen", "up"} /\ Source(g) = "random"

\* Whose process has a key.
Keyed(g) == gate[g].pc \notin {"down", "secret"}

\* No key is known before it is drawn.
Drawn ==
    \A g \in Gateways :
        /\ file[g] # None => file[g] <= drawn
        /\ Keyed(g) => gate[g].key <= drawn

\* A gateway writes only the file it found empty, and listens with the key
\* its source stands for.
FromSource ==
    \A g \in Gateways :
        /\ gate[g].pc \in {"truncate", "write"} => Source(g) = "file" /\ file[g] = None
        /\ gate[g].pc \in {"listen", "up"} =>
              /\ Source(g) = "explicit" => gate[g].key = Explicit
              /\ Source(g) = "file" => file[g] = gate[g].key

\* A random key is in no file and in no other process.
Unshared ==
    \A g \in Gateways : Random(g) =>
        /\ gate[g].key # Explicit
        /\ \A h \in Gateways :
              /\ file[h] # gate[g].key
              /\ h # g /\ Keyed(h) => gate[h].key # gate[g].key

KeyInv == Drawn /\ FromSource /\ Unshared

\* What the cookie c of browser b is worth.
Earned(b, c) ==
    /\ \E t \in logins[b] : t <= clock /\ c.exp = t + Ttl
    /\ c.key <= drawn
    /\ c.source = "explicit" => c.key = Explicit
    /\ c.source = "file" => c.key = file[c.by]
    /\ \A g \in Gateways : Random(g) /\ gate[g].key = c.key => b \in welcomed[g]

\* Every cookie, kept or on its way, was earned.
CookieInv ==
    \A b \in Browsers :
        /\ jar[b] # None => Earned(b, jar[b])
        /\ conn[b] # None /\ conn[b].step \in {"cookie", "ask"} => Earned(b, conn[b].cookie)

\* Requests and what they opened end with their gateway.
OpenInv ==
    \A b \in Browsers :
        /\ conn[b] # None => gate[conn[b].gate].pc = "up"
        /\ inside[b] # None => gate[inside[b].gate].pc = "up"

\* What a browser and the clock do leaves the gateways alone.
Browsing ==
    \/ Tick
    \/ \E b \in Browsers, g \in Gateways, w \in Words : Submit(b, g, w)
    \/ \E b \in Browsers, g \in Gateways : Ask(b, g)
    \/ \E b \in Browsers :
          \/ LoginRefused(b) \/ LoginAccepted(b)
          \/ CookieStored(b) \/ CookieForgotten(b)
          \/ Enter(b) \/ TurnedAway(b) \/ LeaveIDE(b)

LEMMA Kinds ==
    ASSUME [Next]_vars
    PROVE  \/ Browsing \/ UNCHANGED vars
           \/ \E g \in Gateways :
                 \/ \E s \in Setups : Start(g, s)
                 \/ ResolveSecret(g) \/ Truncate(g) \/ WriteSecret(g)
                 \/ Listen(g) \/ Exit(g)
BY DEF Next, Browsing

----
(* Type correctness. *)

\* A gateway that starts or goes on has its type.
LEMMA GateType ==
    ASSUME TypeOK, NEW g \in Gateways,
           \/ \E s \in Setups : Start(g, s)
           \/ ResolveSecret(g) \/ Truncate(g) \/ WriteSecret(g) \/ Listen(g)
    PROVE  TypeOK'
<1> USE DEF TypeOK, users
<1>1. Explicit \in Keys /\ (drawn < MaxKeys => drawn + 1 \in 0..MaxKeys)
  BY BoundsAssumption DEF Explicit, Keys
<1>2. CASE \E s \in Setups : Start(g, s)
  BY <1>2, SetupsAssumption DEF Start, Process
<1>3. CASE ResolveSecret(g)
  <2>1. PICK pc \in {"truncate", "listen"}, k \in Keys :
          Proceed(g, pc, k) /\ drawn' \in 0..MaxKeys
    BY <1>1, <1>3 DEF ResolveSecret, Draw, Keys
  <2>2. gate[g].setup \in Setup
    BY <1>3 DEF ResolveSecret
  <2> QED
    BY <1>3, <2>1, <2>2 DEF ResolveSecret, Proceed, Process
<1>4. CASE Truncate(g)
  BY ZenonT(60), <1>4 DEF Truncate, Proceed, Process
<1>5. CASE WriteSecret(g)
  BY <1>5 DEF WriteSecret, Proceed, Process
<1>6. CASE Listen(g)
  BY ZenonT(60), <1>6 DEF Listen, Proceed, Process
<1> QED
  BY <1>2, <1>3, <1>4, <1>5, <1>6

\* So does one that ends, with everything that was open there.
LEMMA ExitType == ASSUME TypeOK, NEW g \in Gateways, Exit(g) PROVE TypeOK'
<1> USE DEF TypeOK, Exit
<1>1. gate' \in [Gateways -> Process]
  BY DEF Off, Process
<1>2. \A h \in Gateways :
        /\ gate'[h].pc \in {"down", "secret"} \/ gate'[h].key \in Keys
        /\ gate'[h].pc = "down" \/ gate'[h].setup \in Setup
  BY DEF Off
<1>3. conn' \in [Browsers -> Request \cup {None}]
  OBVIOUS
<1>4. inside' \in [Browsers -> [gate : Gateways, at : Times] \cup {None}]
  OBVIOUS
<1> QED
  BY <1>1, <1>2, <1>3, <1>4

\* No request, answer or page breaks a type; a login needs its gateway.
LEMMA BrowsingType == TypeOK /\ OpenInv /\ Browsing => TypeOK'
<1> SUFFICES ASSUME TypeOK, OpenInv, Browsing
             PROVE  TypeOK'
  OBVIOUS
<1> USE DEF TypeOK, users
<1>1. CASE Tick
  BY <1>1, BoundsAssumption DEF Tick, Times
<1>2. ASSUME NEW b \in Browsers, NEW g \in Gateways, NEW w \in Words, Submit(b, g, w)
      PROVE  TypeOK'
  BY <1>2 DEF Submit, Request
<1>3. ASSUME NEW b \in Browsers, NEW g \in Gateways, Ask(b, g)
      PROVE  TypeOK'
  BY <1>3 DEF Ask, Request
<1>4. ASSUME NEW b \in Browsers, LoginRefused(b) \/ TurnedAway(b)
      PROVE  TypeOK'
  BY <1>4 DEF LoginRefused, TurnedAway
<1>5. ASSUME NEW b \in Browsers, LoginAccepted(b)
      PROVE  TypeOK'
  <2> DEFINE g == conn[b].gate
             c == [key |-> gate[g].key, exp |-> clock + Ttl, by |-> g, source |-> Source(g)]
  <2>1. g \in Gateways /\ gate[g].pc = "up" /\ conn[b] \in Request
    BY <1>5 DEF LoginAccepted, Waits, OpenInv, Request
  <2>2. gate[g].key \in Keys /\ Source(g) \in {"explicit", "file", "random"}
    BY <2>1 DEF Source, Setup
  <2>3. clock + Ttl \in Nat
    BY BoundsAssumption DEF Times
  <2>4. c \in Cookie
    BY <2>1, <2>2, <2>3 DEF Cookie
  <2>5. [gate |-> g, step |-> "cookie", cookie |-> c] \in Request
    BY <2>1, <2>4 DEF Request
  <2>6. conn' = [conn EXCEPT ![b] = [gate |-> g, step |-> "cookie", cookie |-> c]]
    BY <1>5 DEF LoginAccepted
  <2>7. conn' \in [Browsers -> Request \cup {None}]
    BY <2>5, <2>6
  <2>8. logins' \in [Browsers -> SUBSET Times] /\ welcomed' \in [Gateways -> SUBSET Browsers]
    BY <1>5, <2>1 DEF LoginAccepted
  <2> QED
    BY <1>5, <2>7, <2>8 DEF LoginAccepted
<1>6. ASSUME NEW b \in Browsers, CookieStored(b)
      PROVE  TypeOK'
  BY <1>6 DEF CookieStored, Waits, Request
<1>7. ASSUME NEW b \in Browsers, CookieForgotten(b)
      PROVE  TypeOK'
  BY <1>7 DEF CookieForgotten
<1>8. ASSUME NEW b \in Browsers, Enter(b)
      PROVE  TypeOK'
  BY <1>8 DEF Enter, Waits, Request
<1>9. ASSUME NEW b \in Browsers, LeaveIDE(b)
      PROVE  TypeOK'
  BY <1>9 DEF LeaveIDE
<1> QED
  BY <1>1, <1>2, <1>3, <1>4, <1>5, <1>6, <1>7, <1>8, <1>9 DEF Browsing

----
(* Where keys are. *)

\* Drawing, writing and losing keys keeps each where it belongs.
LEMMA KeyStep == TypeOK /\ KeyInv /\ [Next]_vars => KeyInv'
<1> SUFFICES ASSUME TypeOK, KeyInv, [Next]_vars
             PROVE  KeyInv'
  OBVIOUS
<1> USE DEF KeyInv, Keyed
<1>0. /\ gate \in [Gateways -> Process] /\ file \in [Gateways -> Keys \cup {None}]
      /\ \A g \in Gateways : Keyed(g) => gate[g].key \in Keys
      /\ drawn \in Nat /\ None \notin Keys /\ Keys \subseteq Nat
  BY NoneAssumption, BoundsAssumption DEF TypeOK, Keys
<1>1. CASE Browsing \/ UNCHANGED vars
  <2>1. UNCHANGED <<gate, file, drawn>>
    BY <1>1 DEF Browsing, vars, Tick, Submit, Ask, LoginRefused, LoginAccepted,
         CookieStored, CookieForgotten, Enter, TurnedAway, LeaveIDE
  <2> QED
    BY <2>1 DEF Drawn, FromSource, Unshared, Random, Source
<1>2. ASSUME NEW g \in Gateways, NEW s \in Setups, Start(g, s)
      PROVE  KeyInv'
  BY <1>0, <1>2 DEF Start, Drawn, FromSource, Unshared, Random, Source, Process
<1>3. ASSUME NEW g \in Gateways, ResolveSecret(g)
      PROVE  KeyInv'
  <2>1. gate[g].pc = "secret" /\ file' = file
    BY <1>3 DEF ResolveSecret
  <2>2. CASE Source(g) = "explicit"
    <3>1. drawn' = drawn /\ Proceed(g, "listen", Explicit)
      BY <1>3, <2>2 DEF ResolveSecret
    <3> QED
      BY <1>0, <2>1, <2>2, <3>1 DEF Proceed, Drawn, FromSource, Unshared, Random, Source,
           Process, Explicit
  <2>3. CASE Source(g) = "file" /\ file[g] # None
    <3>1. drawn' = drawn /\ Proceed(g, "listen", file[g])
      BY <1>3, <2>3 DEF ResolveSecret
    <3> QED
      BY <1>0, <2>1, <2>3, <3>1 DEF Proceed, Drawn, FromSource, Unshared, Random, Source,
           Process
  <2>4. CASE Source(g) = "file" /\ file[g] = None
    <3>1. drawn' = drawn + 1 /\ Proceed(g, "truncate", drawn + 1)
      BY <1>3, <2>4 DEF ResolveSecret, Draw
    <3> QED
      BY <1>0, <2>1, <2>4, <3>1 DEF Proceed, Drawn, FromSource, Unshared, Random, Source,
           Process
  <2>5. CASE Source(g) \notin {"explicit", "file"}
    <3>1. drawn' = drawn + 1 /\ Proceed(g, "listen", drawn + 1)
      BY <1>3, <2>5 DEF ResolveSecret, Draw
    <3>2. gate' = [gate EXCEPT ![g] = [@ EXCEPT !.pc = "listen", !.key = drawn + 1]]
      BY <3>1 DEF Proceed
    <3>3. \A h \in Gateways : h # g => gate'[h] = gate[h]
      BY <1>0, <3>2
    <3>4. /\ gate'[g].pc = "listen" /\ gate'[g].key = drawn + 1
          /\ gate'[g].setup = gate[g].setup
      BY <1>0, <3>2 DEF Process
    <3>5. \A h \in Gateways :
            file[h] # drawn + 1 /\ (Keyed(h) => gate[h].key # drawn + 1)
      <4>1. drawn + 1 \in Keys
        BY <1>3, <2>5, BoundsAssumption DEF ResolveSecret, Draw, TypeOK, Keys
      <4>2. None # drawn + 1
        BY <4>1, <1>0
      <4>3. \A k \in Keys : k <= drawn => k # drawn + 1
        BY <1>0
      <4> QED
        BY <1>0, <4>2, <4>3 DEF Drawn
    <3>6. Drawn'
      <4>1. \A k \in Keys : k <= drawn => k <= drawn + 1
        BY <1>0
      <4>2. ASSUME NEW h \in Gateways
            PROVE  file[h] # None => file[h] <= drawn + 1
        BY <1>0, <4>1 DEF Drawn
      <4>3. ASSUME NEW h \in Gateways, h # g
            PROVE  Keyed(h) => gate[h].key <= drawn + 1
        BY <1>0, <4>1 DEF Drawn
      <4> QED
        BY <1>0, <2>1, <3>1, <3>3, <3>4, <4>2, <4>3 DEF Drawn
    <3>7. FromSource'
      BY <2>1, <2>5, <3>3, <3>4 DEF FromSource, Source
    <3>8. Unshared'
      BY <1>0, <2>1, <3>1, <3>3, <3>4, <3>5 DEF Unshared, Random, Source, Explicit
    <3> QED
      BY <3>6, <3>7, <3>8
  <2> QED
    BY <2>2, <2>3, <2>4, <2>5
<1>4. ASSUME NEW g \in Gateways, Truncate(g)
      PROVE  KeyInv'
  BY <1>0, <1>4 DEF Truncate, Proceed, Drawn, FromSource, Unshared, Random, Source, Process
<1>5. ASSUME NEW g \in Gateways, WriteSecret(g)
      PROVE  KeyInv'
  BY <1>0, <1>5 DEF WriteSecret, Proceed, Drawn, FromSource, Unshared, Random, Source, Process
<1>6. ASSUME NEW g \in Gateways, Listen(g)
      PROVE  KeyInv'
  BY <1>0, <1>6 DEF Listen, Proceed, Drawn, FromSource, Unshared, Random, Source, Process
<1>7. ASSUME NEW g \in Gateways, Exit(g)
      PROVE  KeyInv'
  BY <1>0, <1>7 DEF Exit, Off, Drawn, FromSource, Unshared, Random, Source, Process
<1> QED
  BY <1>1, <1>2, <1>3, <1>4, <1>5, <1>6, <1>7, Kinds

\* A gateway ends with every request and page it has.
LEMMA OpenStep == TypeOK /\ OpenInv /\ [Next]_vars => OpenInv'
<1> SUFFICES ASSUME TypeOK, OpenInv, [Next]_vars, NEW b \in Browsers
             PROVE  /\ conn'[b] # None => gate'[conn'[b].gate].pc = "up"
                    /\ inside'[b] # None => gate'[inside'[b].gate].pc = "up"
  BY DEF OpenInv
<1> USE DEF OpenInv
<1>0. /\ gate \in [Gateways -> Process]
      /\ \A x \in Browsers : conn[x] # None => conn[x].gate \in Gateways
      /\ \A x \in Browsers : inside[x] # None => inside[x].gate \in Gateways
      /\ conn \in [Browsers -> Request \cup {None}]
      /\ inside \in [Browsers -> [gate : Gateways, at : Times] \cup {None}]
  BY DEF TypeOK, Request
<1>1. CASE Browsing \/ UNCHANGED vars
  BY <1>0, <1>1 DEF Browsing, vars, users, Tick, Submit, Ask, LoginRefused, LoginAccepted,
       Waits, CookieStored, CookieForgotten, Enter, TurnedAway, LeaveIDE
<1>2. ASSUME NEW g \in Gateways, Exit(g)
      PROVE  /\ conn'[b] # None => gate'[conn'[b].gate].pc = "up"
             /\ inside'[b] # None => gate'[inside'[b].gate].pc = "up"
  BY <1>0, <1>2 DEF Exit, Off, Process
<1>3. ASSUME NEW g \in Gateways,
             \/ \E s \in Setups : Start(g, s)
             \/ ResolveSecret(g) \/ Truncate(g) \/ WriteSecret(g) \/ Listen(g)
      PROVE  /\ conn'[b] # None => gate'[conn'[b].gate].pc = "up"
             /\ inside'[b] # None => gate'[inside'[b].gate].pc = "up"
  <2>1. UNCHANGED <<conn, inside>>
    BY <1>3 DEF Start, ResolveSecret, Truncate, WriteSecret, Listen, users
  <2>2. \A h \in Gateways : gate[h].pc = "up" => gate'[h].pc = "up"
    BY <1>0, <1>3 DEF Start, ResolveSecret, Draw, Truncate, WriteSecret, Listen, Proceed,
         Process
  <2> QED
    BY <1>0, <2>1, <2>2
<1> QED
  BY <1>1, <1>2, <1>3, Kinds

----
(* What cookies are worth. *)

\* Clock, drawn keys and logins only grow.
LEMMA Grows ==
    ASSUME TypeOK, [Next]_vars
    PROVE  /\ clock <= clock' /\ drawn <= drawn'
           /\ \A b \in Browsers : logins[b] \subseteq logins'[b]
<1> USE DEF TypeOK, users
<1>0. clock \in Nat /\ drawn \in Nat
  BY BoundsAssumption DEF Times
<1>1. CASE Browsing \/ UNCHANGED vars
  BY <1>0, <1>1 DEF Browsing, vars, Tick, Submit, Ask, LoginRefused, LoginAccepted,
       CookieStored, CookieForgotten, Enter, TurnedAway, LeaveIDE
<1>2. ASSUME NEW g \in Gateways,
             \/ \E s \in Setups : Start(g, s)
             \/ ResolveSecret(g) \/ Truncate(g) \/ WriteSecret(g) \/ Listen(g) \/ Exit(g)
      PROVE  clock' = clock /\ logins' = logins /\ (drawn' = drawn \/ drawn' = drawn + 1)
  BY <1>2 DEF Start, ResolveSecret, Draw, Truncate, WriteSecret, Listen, Exit
<1> QED
  BY <1>0, <1>1, <1>2, Kinds

\* A key in a secret file stays there.
LEMMA FileStays ==
    ASSUME TypeOK, KeyInv, [Next]_vars, NEW g \in Gateways, file[g] # None
    PROVE  file'[g] = file[g]
<1>1. CASE Browsing \/ UNCHANGED vars
  BY <1>1 DEF Browsing, vars, Tick, Submit, Ask, LoginRefused, LoginAccepted,
       CookieStored, CookieForgotten, Enter, TurnedAway, LeaveIDE
<1>2. ASSUME NEW h \in Gateways, Truncate(h) \/ WriteSecret(h)
      PROVE  file'[g] = file[g]
  BY <1>2 DEF KeyInv, FromSource, Truncate, WriteSecret, TypeOK
<1>3. ASSUME NEW h \in Gateways,
             \/ \E s \in Setups : Start(h, s)
             \/ ResolveSecret(h) \/ Listen(h) \/ Exit(h)
      PROVE  file'[g] = file[g]
  BY <1>3 DEF Start, ResolveSecret, Listen, Exit
<1> QED
  BY <1>1, <1>2, <1>3, Kinds

\* A gateway that signs with a random key has drawn it in this step, or had it
\* and welcomes whom it welcomed.
LEMMA RandomStays ==
    ASSUME TypeOK, KeyInv, [Next]_vars, NEW g \in Gateways, Random(g)'
    PROVE  \/ gate'[g].key = drawn + 1
           \/ /\ Random(g) /\ gate'[g].key = gate[g].key
              /\ welcomed[g] \subseteq welcomed'[g]
<1>0. gate \in [Gateways -> Process] /\ welcomed \in [Gateways -> SUBSET Browsers]
  BY DEF TypeOK
<1>1. CASE Browsing \/ UNCHANGED vars
  <2>1. gate' = gate
    BY <1>1 DEF Browsing, vars, Tick, Submit, Ask, LoginRefused, LoginAccepted,
         CookieStored, CookieForgotten, Enter, TurnedAway, LeaveIDE
  <2>2. welcomed[g] \subseteq welcomed'[g]
    BY <1>0, <1>1 DEF Browsing, vars, Tick, Submit, Ask, LoginRefused, LoginAccepted,
         CookieStored, CookieForgotten, Enter, TurnedAway, LeaveIDE
  <2> QED
    BY <2>1, <2>2 DEF Random, Source
<1>2. ASSUME NEW h \in Gateways, \/ \E s \in Setups : Start(h, s)
                                 \/ Exit(h) \/ Truncate(h) \/ WriteSecret(h) \/ Listen(h)
      PROVE  /\ Random(g) /\ gate'[g].key = gate[g].key
             /\ welcomed[g] \subseteq welcomed'[g]
  BY <1>0, <1>2 DEF Start, Exit, Off, Truncate, WriteSecret, Listen, Proceed, Process,
       KeyInv, FromSource, Random, Source
<1>3. ASSUME NEW h \in Gateways, ResolveSecret(h), h # g
      PROVE  /\ Random(g) /\ gate'[g].key = gate[g].key
             /\ welcomed[g] \subseteq welcomed'[g]
  BY <1>0, <1>3 DEF ResolveSecret, Draw, Proceed, Random, Source
<1>4. CASE ResolveSecret(g)
  <2>1. gate'[g].setup = gate[g].setup
    BY <1>0, <1>4 DEF ResolveSecret, Draw, Proceed, Process
  <2>2. Source(g) = "random"
    BY <2>1 DEF Random, Source
  <2>3. Draw(g, "listen")
    BY <1>4, <2>2 DEF ResolveSecret
  <2> QED
    BY <1>0, <2>3 DEF Draw, Proceed, Process
<1> QED
  BY <1>1, <1>2, <1>3, <1>4, Kinds

\* A cookie keeps its worth.
LEMMA EarnedStays ==
    ASSUME TypeOK, TypeOK', KeyInv, [Next]_vars,
           NEW b \in Browsers, NEW c \in Cookie, Earned(b, c)
    PROVE  Earned(b, c)'
<1>0. /\ clock \in Nat /\ clock' \in Nat /\ drawn \in Nat /\ drawn' \in Nat
      /\ logins[b] \subseteq Nat /\ c.key \in Keys /\ Keys \subseteq Nat
      /\ c.by \in Gateways /\ None \notin Keys
  BY BoundsAssumption, NoneAssumption DEF TypeOK, Times, Keys, Cookie
<1>1. \E t \in logins'[b] : t <= clock' /\ c.exp = t + Ttl
  BY <1>0, Grows DEF Earned
<1>2. c.key <= drawn'
  <2>1. c.key \in Nat /\ c.key <= drawn /\ drawn <= drawn'
    BY <1>0, Grows DEF Earned
  <2> QED
    BY <1>0, <2>1
<1>3. c.source = "file" => c.key = file'[c.by]
  BY <1>0, FileStays DEF Earned
<1>4. ASSUME NEW g \in Gateways, Random(g)', gate'[g].key = c.key
      PROVE  b \in welcomed'[g]
  <2>1. gate'[g].key # drawn + 1
    BY <1>0, <1>4 DEF Earned
  <2> QED
    BY <1>4, <2>1, RandomStays DEF Earned
<1>5. c.source = "explicit" => c.key = Explicit
  BY DEF Earned
<1> QED
  BY <1>1, <1>2, <1>3, <1>4, <1>5 DEF Earned

\* What the gateway signs for whoever gave its password is earned.
LEMMA Signed ==
    ASSUME TypeOK, TypeOK', KeyInv, OpenInv, NEW b \in Browsers, LoginAccepted(b)
    PROVE  Earned(b, conn[b].cookie)'
<1> DEFINE g == conn[b].gate
           c == [key |-> gate[g].key, exp |-> clock + Ttl, by |-> g, source |-> Source(g)]
<1>1. /\ conn'[b].cookie = c
      /\ gate' = gate /\ file' = file /\ drawn' = drawn /\ clock' = clock
      /\ logins'[b] = logins[b] \cup {clock}
      /\ welcomed' = [welcomed EXCEPT ![g] = @ \cup {b}]
  BY DEF LoginAccepted, TypeOK
<1>2. g \in Gateways /\ gate[g].pc = "up" /\ b \in welcomed'[g]
  BY <1>1 DEF LoginAccepted, Waits, OpenInv, TypeOK, Request
<1>3. clock <= clock
  BY DEF TypeOK, Times
<1>4. c.key <= drawn
  BY <1>2 DEF KeyInv, Drawn, Keyed
<1>5. /\ c.source = "explicit" => c.key = Explicit
      /\ c.source = "file" => c.key = file[c.by]
  BY <1>2 DEF KeyInv, FromSource
<1>6. ASSUME NEW h \in Gateways, Random(h)', gate'[h].key = c.key
      PROVE  b \in welcomed'[h]
  <2>1. Random(h)
    BY <1>1, <1>6 DEF Random, Source
  <2>2. h = g
    BY <1>1, <1>2, <1>6, <2>1 DEF KeyInv, Unshared, Keyed
  <2> QED
    BY <1>2, <2>2
<1> HIDE DEF g
<1> QED
  BY <1>1, <1>3, <1>4, <1>5, <1>6 DEF Earned

\* What a step does to the cookie a browser keeps, the one on its way to or
\* from it, and what it has opened.
LEMMA Moves ==
    ASSUME TypeOK, [Next]_vars, NEW b \in Browsers
    PROVE  /\ \/ jar'[b] \in {jar[b], None}
              \/ Waits(b, "cookie") /\ jar'[b] = conn[b].cookie
           /\ \/ LoginAccepted(b)
              \/ conn'[b] \in {conn[b], None}
              \/ conn'[b].step = "login"
              \/ jar[b] # None /\ conn'[b].cookie = jar[b]
           /\ inside'[b] \in {inside[b], None} \/ Enter(b)
<1> USE DEF TypeOK
<1>1. CASE Browsing
  BY <1>1 DEF Browsing, users, Tick, Submit, Ask, LoginRefused, LoginAccepted,
       CookieStored, CookieForgotten, Enter, TurnedAway, LeaveIDE
<1>2. ASSUME NEW g \in Gateways, Exit(g)
      PROVE  jar' = jar /\ conn'[b] \in {conn[b], None} /\ inside'[b] \in {inside[b], None}
  BY <1>2 DEF Exit
<1>3. ASSUME NEW g \in Gateways,
             \/ \E s \in Setups : Start(g, s)
             \/ ResolveSecret(g) \/ Truncate(g) \/ WriteSecret(g) \/ Listen(g)
      PROVE  jar' = jar /\ conn' = conn /\ inside' = inside
  BY <1>3 DEF users, Start, ResolveSecret, Truncate, WriteSecret, Listen
<1>4. CASE UNCHANGED vars
  BY <1>4 DEF vars
<1> QED
  BY <1>1, <1>2, <1>3, <1>4, Kinds

\* A cookie that is kept or on its way was signed, and keeps its worth.
LEMMA CookieStep ==
    TypeOK /\ TypeOK' /\ KeyInv /\ OpenInv /\ CookieInv /\ [Next]_vars => CookieInv'
<1> SUFFICES ASSUME TypeOK, TypeOK', KeyInv, OpenInv, CookieInv, [Next]_vars,
                    NEW b \in Browsers
             PROVE  /\ jar'[b] # None => Earned(b, jar[b])'
                    /\ conn'[b] # None /\ conn'[b].step \in {"cookie", "ask"}
                         => Earned(b, conn[b].cookie)'
  BY DEF CookieInv
<1>1. \A c \in Cookie : Earned(b, c) => Earned(b, c)'
  BY EarnedStays
<1>2. /\ jar[b] # None => jar[b] \in Cookie /\ Earned(b, jar[b])
      /\ conn[b] # None /\ conn[b].step \in {"cookie", "ask"}
           => conn[b].cookie \in Cookie /\ Earned(b, conn[b].cookie)
  BY DEF TypeOK, Request, CookieInv
<1>3. jar'[b] # None => Earned(b, jar[b])'
  BY <1>1, <1>2, Moves DEF Earned, Waits
<1>4. CASE LoginAccepted(b)
  BY <1>3, <1>4, Signed
<1>5. CASE ~LoginAccepted(b)
  BY <1>1, <1>2, <1>3, <1>5, Moves DEF Earned
<1> QED
  BY <1>4, <1>5

\* Whoever is let in shows a cookie that was earned.
LEMMA AdmitStep ==
    TypeOK /\ CookieInv /\ AdmittedInTime /\ [Next]_vars => AdmittedInTime'
<1> SUFFICES ASSUME TypeOK, CookieInv, AdmittedInTime, [Next]_vars,
                    NEW b \in Browsers, inside'[b] # None
             PROVE  \E t \in logins'[b] : t <= inside'[b].at /\ inside'[b].at < t + Ttl
  BY DEF AdmittedInTime
<1>1. CASE inside'[b] = inside[b]
  BY <1>1, Grows DEF AdmittedInTime
<1>2. CASE Enter(b)
  <2>1. inside'[b].at = clock
    BY <1>2 DEF Enter, TypeOK
  <2>2. Earned(b, conn[b].cookie) /\ conn[b].cookie.exp > clock
    BY <1>2 DEF Enter, Waits, ValidToken, CookieInv
  <2>3. \E t \in logins[b] : t <= clock /\ clock < t + Ttl
    BY <2>2 DEF Earned
  <2> QED
    BY <2>1, <2>3, Grows
<1> QED
  BY <1>1, <1>2, Moves

\* Whoever is let in with a random key was welcomed, and a new life of the
\* gateway begins with nobody inside.
LEMMA RevokeStep ==
    TypeOK /\ OpenInv /\ CookieInv /\ RestartRevokes /\ [Next]_vars
      => RestartRevokes'
<1> SUFFICES ASSUME TypeOK, OpenInv, CookieInv, RestartRevokes, [Next]_vars,
                    NEW b \in Browsers, NEW g \in Gateways,
                    inside'[b] # None, inside'[b].gate = g, Source(g)' = "random"
             PROVE  b \in welcomed'[g]
  BY DEF RestartRevokes
<1>1. CASE gate'[g].setup = gate[g].setup /\ welcomed[g] \subseteq welcomed'[g]
  <2>1. Source(g) = "random"
    BY <1>1 DEF Source
  <2>2. CASE inside'[b] = inside[b]
    BY <1>1, <2>1, <2>2 DEF RestartRevokes
  <2>3. CASE Enter(b)
    <3>1. inside'[b].gate = conn[b].gate
      BY <2>3 DEF Enter, TypeOK
    <3>2. gate[g].pc = "up" /\ Earned(b, conn[b].cookie) /\ conn[b].cookie.key = gate[g].key
      BY <2>3, <3>1 DEF Enter, Waits, ValidToken, CookieInv, OpenInv
    <3> QED
      BY <1>1, <2>1, <3>2 DEF Earned, Random
  <2> QED
    BY <2>2, <2>3, Moves
<1>2. CASE ~(gate'[g].setup = gate[g].setup /\ welcomed[g] \subseteq welcomed'[g])
  <2>1. Exit(g) \/ \E s \in Setups : Start(g, s)
    <3> USE DEF TypeOK, Process
    <3>1. CASE Browsing \/ UNCHANGED vars
      <4>1. gate' = gate
        BY <3>1 DEF Browsing, vars, Tick, Submit, Ask, LoginRefused, LoginAccepted,
             CookieStored, CookieForgotten, Enter, TurnedAway, LeaveIDE
      <4>2. welcomed[g] \subseteq welcomed'[g]
        BY <3>1 DEF Browsing, vars, Tick, Submit, Ask, LoginRefused, LoginAccepted,
             CookieStored, CookieForgotten, Enter, TurnedAway, LeaveIDE
      <4> QED
        BY <1>2, <4>1, <4>2
    <3>2. ASSUME NEW h \in Gateways,
                 ResolveSecret(h) \/ Truncate(h) \/ WriteSecret(h) \/ Listen(h)
          PROVE  FALSE
      <4>1. \E pc, k : Proceed(h, pc, k)
        <5>1. CASE ResolveSecret(h)
          BY <5>1 DEF ResolveSecret, Draw
        <5>2. CASE Truncate(h) \/ WriteSecret(h) \/ Listen(h)
          BY <5>2 DEF Truncate, WriteSecret, Listen
        <5> QED
          BY <3>2, <5>1, <5>2
      <4>2. gate'[g].setup = gate[g].setup
        BY <4>1 DEF Proceed
      <4>3. welcomed' = welcomed
        BY <3>2 DEF ResolveSecret, Truncate, WriteSecret, Listen
      <4> QED
        BY <1>2, <4>2, <4>3
    <3>3. ASSUME NEW h \in Gateways, Exit(h) \/ \E s \in Setups : Start(h, s), h # g
          PROVE  FALSE
      BY <1>2, <3>3 DEF Start, Exit, Off
    <3> QED
      BY <3>1, <3>2, <3>3, Kinds
  <2>2. CASE Exit(g)
    BY <2>2 DEF Exit, TypeOK
  <2>3. ASSUME NEW s \in Setups, Start(g, s)
        PROVE  FALSE
    BY <2>3 DEF Start, OpenInv, users
  <2> QED
    BY <2>1, <2>2, <2>3
<1> QED
  BY <1>1, <1>2

----
(* The theorems. *)

\* The invariants hold together.
IInv == TypeOK /\ KeyInv /\ OpenInv /\ CookieInv /\ AdmittedInTime /\ RestartRevokes

\* The invariant holds whatever is killed, started and asked.
LEMMA Invariant == Spec => []IInv
<1>1. Init => TypeOK
  <2> SUFFICES ASSUME Init PROVE TypeOK
    OBVIOUS
  <2>1. clock \in Times /\ drawn \in 0..MaxKeys
    BY BoundsAssumption DEF Init, Times
  <2> QED
    BY <2>1 DEF Init, TypeOK, Process
<1>2. Init => KeyInv /\ OpenInv /\ CookieInv /\ AdmittedInTime /\ RestartRevokes
  BY DEF Init, KeyInv, Drawn, Keyed, FromSource, Unshared, Random, OpenInv, CookieInv,
         AdmittedInTime, RestartRevokes
<1>3. TypeOK /\ OpenInv /\ [Next]_vars => TypeOK'
  BY Kinds, GateType, ExitType, BrowsingType DEF vars, TypeOK
<1>4. IInv /\ [Next]_vars => IInv'
  BY <1>3, KeyStep, OpenStep, CookieStep, AdmitStep, RevokeStep DEF IInv
<1> QED
  BY <1>1, <1>2, <1>4, PTL DEF Spec, IInv

\* Every variable keeps its type, and no gateway listens without a key.
THEOREM TypeCorrect == Spec => []TypeOK
<1>1. IInv => TypeOK
  BY DEF IInv
<1> QED
  BY <1>1, Invariant, PTL

\* validToken lets in only who gave a password less than the cookie's life
\* before, however the gateways were restarted and whichever shows up where.
THEOREM LoginsExpire == Spec => []AdmittedInTime
<1>1. IInv => AdmittedInTime
  BY DEF IInv
<1> QED
  BY <1>1, Invariant, PTL

\* A gateway without a secret signs out everybody when it restarts.
THEOREM RestartsRevoke == Spec => []RestartRevokes
<1>1. IInv => RestartRevokes
  BY DEF IInv
<1> QED
  BY <1>1, Invariant, PTL

\* A cookie signed with GATEWAY_SECRET or with the key of a secret file is good
\* until it expires, wherever in resolveSecret and os.WriteFile its gateway
\* is killed.
THEOREM CookiesStayGood == Spec => []CookiesSurvive
<1>1. IInv => CookiesSurvive
  BY DEF IInv, CookiesSurvive, KeyInv, FromSource, CookieInv, Earned, ValidToken
<1> QED
  BY <1>1, Invariant, PTL
====
