---------------------------- MODULE PairingStore ----------------------------
(***************************************************************************)
(* How a Figma plugin is paired with a Web Console (figma_pairing.py and   *)
(* its routes in api.py).  create_code, exchange and revoke are BEGIN      *)
(* IMMEDIATE transactions, one action each; cancelling and revoking from a *)
(* console read the session first and write in a later statement, so they  *)
(* are two.  Every method reads the clock before it waits for the database *)
(* lock: the time it works with may be one tick old.                       *)
(***************************************************************************)
EXTENDS Integers, FiniteSets

CONSTANTS
  Codes,       \* six-digit codes
  Malformed,   \* what a plugin may send that is not six digits
  Sources,     \* client addresses
  MaxSessions, \* bound: console sessions issued
  MaxClock,    \* bound: the time runs from 0 to MaxClock
  CodeTTL, ConsoleTTL, Window, Attempts, \* _CODE_TTL .. _RATE_LIMIT_ATTEMPTS
  None

ASSUME TimesAssumption ==
  /\ {MaxSessions, MaxClock} \subseteq Nat
  /\ {CodeTTL, ConsoleTTL, Window, Attempts} \subseteq Nat \ {0}
  /\ CodeTTL <= ConsoleTTL

ASSUME GuessesAssumption == Codes \cap Malformed = {}

Sessions == 1..MaxSessions
Guesses == Codes \cup Malformed
Buckets == ({"create", "source"} \X Sources) \cup ({"code"} \X Guesses)

VARIABLES
  codes,     \* pairing_codes, by code_digest; consumed_at is set with device_id
  devices,   \* plugin_devices: "none", "live" or "revoked"
  failures,  \* pairing_failures; no row is no attempts
  issued,    \* how many console sessions were issued
  pending,   \* the console request of each session that has read but not written
  clock,
  origin,    \* history: the session whose code each device answered
  wrong      \* history: wrong guesses of each source since its window opened

storeVars == <<codes, devices, failures, origin, wrong>>
vars == <<storeVars, issued, pending, clock>>

Row == [expires : Nat, console : Sessions, consoleExpires : Nat,
        cancelled : BOOLEAN, device : Sessions \cup {None}]
NoFailure == [expires |-> 0, attempts |-> 0]

ASSUME NoneIsNoRow == None \notin Sessions /\ None \notin Row

TypeOK ==
  /\ codes \in [Codes -> Row \cup {None}]
  /\ \A c \in Codes : codes[c] # None /\ codes[c].device # None =>
       devices[codes[c].device] # "none"
  /\ devices \in [Sessions -> {"none", "live", "revoked"}]
  /\ failures \in [Buckets -> [expires : Nat, attempts : 0..Attempts]]
  /\ issued \in 0..MaxSessions /\ clock \in 0..MaxClock
  /\ pending \in [Sessions -> [op : {"none"}] \cup [op : {"cancel"}, code : Codes]
                                \cup [op : {"revoke"}, device : Sessions]]
  /\ origin \in [Sessions -> Sessions \cup {None}]
  /\ wrong \in [Sources -> Nat]

Init ==
  /\ codes = [c \in Codes |-> None]
  /\ devices = [d \in Sessions |-> "none"]
  /\ failures = [b \in Buckets |-> NoFailure]
  /\ issued = 0 /\ clock = 0
  /\ pending = [s \in Sessions |-> [op |-> "none"]]
  /\ origin = [d \in Sessions |-> None]
  /\ wrong = [s \in Sources |-> 0]

\* The time a request works with.
Stamps == {clock, clock - 1} \cap Nat
-----------------------------------------------------------------------------
(* The failure buckets: a fixed window from the first attempt.             *)

Cleared(f, t) ==
  [b \in Buckets |-> IF f[b].attempts > 0 /\ f[b].expires <= t THEN NoFailure ELSE f[b]]

\* Mutant: every attempt renews the window.
BumpedSliding(f, bs, t) ==
  [b \in Buckets |->
     IF b \notin bs THEN f[b]
     ELSE [expires |-> t + Window,
           attempts |-> IF f[b].attempts < Attempts THEN f[b].attempts + 1 ELSE Attempts]]

Bumped(f, bs, t) ==
  [b \in Buckets |->
     IF b \notin bs THEN f[b]
     ELSE IF f[b].attempts = 0 THEN [expires |-> t + Window, attempts |-> 1]
     ELSE [f[b] EXCEPT !.attempts = IF @ < Attempts THEN @ + 1 ELSE Attempts]]

\* Mutant: compared with the wrong end.
LimitedPastCap(f, bs) == \E b \in bs : f[b].attempts > Attempts

Limited(f, bs) == \E b \in bs : f[b].attempts >= Attempts

\* The history starts again with a source's next window.
Recount(f) == [s \in Sources |-> IF f[<<"source", s>>].attempts = 0 THEN 0 ELSE wrong[s]]
-----------------------------------------------------------------------------
(* create_code.  A limited source gets nothing and its transaction is      *)
(* rolled back; three draws that all collide leave the sweep and the count *)
(* behind, but no code.                                                    *)

Swept(t) ==
  [c \in Codes |->
     IF codes[c] # None /\ (codes[c].consoleExpires <= t
                            \/ (codes[c].device = None /\ codes[c].expires <= t))
     THEN None ELSE codes[c]]

NewRow(t) == [expires |-> t + CodeTTL, console |-> issued + 1,
              consoleExpires |-> t + ConsoleTTL, cancelled |-> FALSE, device |-> None]

CreateCode(source, t) ==
  LET bucket == {<<"create", source>>}
      f == Cleared(failures, t)
  IN  /\ issued < MaxSessions
      /\ ~Limited(f, bucket)
      /\ failures' = Bumped(f, bucket, t)
      /\ \/ \E c \in Codes :
              /\ Swept(t)[c] = None
              /\ codes' = [Swept(t) EXCEPT ![c] = NewRow(t)]
              /\ issued' = issued + 1
         \/ /\ \E c \in Codes : Swept(t)[c] # None
            /\ codes' = Swept(t)
            /\ UNCHANGED issued
      /\ wrong' = Recount(f)
      /\ UNCHANGED <<devices, pending, clock, origin>>
-----------------------------------------------------------------------------
(* exchange.                                                               *)

GuessBuckets(source, g) == {<<"source", source>>, <<"code", g>>}

\* Mutant: the first exchange is not looked at.
AnswerableTwice(g) == g \in Codes /\ codes[g] # None /\ ~codes[g].cancelled

Answerable(g) ==
  /\ g \in Codes
  /\ codes[g] # None
  /\ codes[g].device = None
  /\ ~codes[g].cancelled

\* _invalid_attempt commits the count although the request fails.
ExchangeInvalid(source, g, t) ==
  LET f == Cleared(failures, t)
  IN  /\ ~Limited(f, GuessBuckets(source, g))
      /\ ~Answerable(g)
      /\ failures' = Bumped(f, GuessBuckets(source, g), t)
      /\ wrong' = [Recount(f) EXCEPT ![source] = @ + 1]
      /\ UNCHANGED <<codes, devices, issued, pending, clock, origin>>

NewDevice == Cardinality({d \in Sessions : devices[d] # "none"}) + 1

\* Mutant: the code is consumed, the device row never inserted.
EnrolsNothing(s) == UNCHANGED <<devices, origin>>

EnrolsDevice(s) ==
  /\ devices' = [devices EXCEPT ![NewDevice] = "live"]
  /\ origin' = [origin EXCEPT ![NewDevice] = s]

\* An expired code raises and rolls everything back: a stuttering step.
Exchange(source, g, t) ==
  LET f == Cleared(failures, t)
  IN  /\ ~Limited(f, GuessBuckets(source, g))
      /\ Answerable(g)
      /\ t < codes[g].expires
      /\ NewDevice \in Sessions
      /\ codes' = [codes EXCEPT ![g].device = NewDevice]
      /\ EnrolsDevice(codes[g].console)
      /\ failures' = f
      /\ wrong' = Recount(f)
      /\ UNCHANGED <<issued, pending, clock>>
-----------------------------------------------------------------------------
(* The console's own requests.                                             *)

\* _console_row: the row a console session opens at time t.
Opens(s, c, t) ==
  /\ codes[c] # None
  /\ codes[c].console = s
  /\ ~codes[c].cancelled
  /\ t < codes[c].consoleExpires

CancelReads(s, t) ==
  /\ pending[s].op = "none"
  /\ \E c \in Codes : Opens(s, c, t) /\ pending' = [pending EXCEPT ![s] = [op |-> "cancel", code |-> c]]
  /\ UNCHANGED <<storeVars, issued, clock>>

\* The UPDATE names the code and nothing else.
CancelWrites(s) ==
  /\ pending[s].op = "cancel"
  /\ codes' = IF codes[pending[s].code] = None THEN codes
              ELSE [codes EXCEPT ![pending[s].code].cancelled = TRUE]
  /\ pending' = [pending EXCEPT ![s] = [op |-> "none"]]
  /\ UNCHANGED <<devices, failures, issued, clock, origin, wrong>>

\* revoke_console_device: console_status must show a live device.
RevokeReads(s, t) ==
  /\ pending[s].op = "none"
  /\ \E c \in Codes :
       /\ Opens(s, c, t)
       /\ codes[c].device # None /\ devices[codes[c].device] = "live"
       /\ pending' = [pending EXCEPT ![s] = [op |-> "revoke", device |-> codes[c].device]]
  /\ UNCHANGED <<storeVars, issued, clock>>

\* Mutant: the device is revoked and its pairing left as it was.
RevokedDeviceOnly(d) ==
  /\ devices' = [devices EXCEPT ![d] = "revoked"]
  /\ UNCHANGED codes

\* revoke: idempotent, and the device's pairing goes with it.
Revoked(d) ==
  /\ devices' = [devices EXCEPT ![d] = "revoked"]
  /\ codes' = [c \in Codes |->
                 IF codes[c] # None /\ codes[c].device = d /\ devices[d] = "live"
                 THEN [codes[c] EXCEPT !.cancelled = TRUE] ELSE codes[c]]

RevokeWrites(s) ==
  /\ pending[s].op = "revoke"
  /\ Revoked(pending[s].device)
  /\ pending' = [pending EXCEPT ![s] = [op |-> "none"]]
  /\ UNCHANGED <<failures, issued, clock, origin, wrong>>

Tick == clock < MaxClock /\ clock' = clock + 1 /\ UNCHANGED <<storeVars, issued, pending>>
-----------------------------------------------------------------------------
Next ==
  \/ \E source \in Sources, t \in Stamps : CreateCode(source, t)
  \/ \E source \in Sources, g \in Guesses, t \in Stamps : ExchangeInvalid(source, g, t)
  \/ \E source \in Sources, g \in Guesses, t \in Stamps : Exchange(source, g, t)
  \/ \E s \in Sessions, t \in Stamps : CancelReads(s, t)
  \/ \E s \in Sessions, t \in Stamps : RevokeReads(s, t)
  \/ \E s \in Sessions : CancelWrites(s) \/ RevokeWrites(s)
  \/ Tick

Spec == Init /\ [][Next]_vars
-----------------------------------------------------------------------------
(* Properties.                                                             *)

\* Whatever a source tries, on whichever codes and with however old a clock,
\* it gets at most Attempts wrong guesses evaluated before its window is over
\* (the counter itself saturates and would not show it).
GuessesPerWindow == \A s \in Sources : wrong[s] <= Attempts

\* A bucket that is being counted keeps the window its first attempt opened:
\* whoever goes on trying does not lengthen the lockout of the rest.
LockoutIsNotExtended ==
  [][\A b \in Buckets :
       failures[b].attempts > 0 /\ failures'[b].attempts > 0
         /\ failures'[b].expires # failures[b].expires => failures[b].expires <= clock]_vars

\* A revoked device leaves no console session behind that still shows it.
RevocationClosesConsole ==
  \A c \in Codes :
    codes[c] # None /\ codes[c].device # None /\ devices[codes[c].device] = "revoked" =>
      codes[c].cancelled

\* "The Web Console lists paired Figma devices [...] and provides a one-click
\* revoke action" (live-figma-selection-plugin design): some console session
\* opens on every device whose credential works.
LiveDevicesAreListed ==
  \A d \in Sessions : devices[d] = "live" =>
    \E c \in Codes : codes[c] # None /\ codes[c].device = d /\ Opens(codes[c].console, c, clock)

DevicesOf(s) == {d \in Sessions : origin[d] = s}

Phase(s) ==
  IF s > issued THEN "none"
  ELSE IF \E d \in DevicesOf(s) : devices[d] = "revoked" THEN "revoked"
  ELSE IF DevicesOf(s) # {} THEN "paired"
  ELSE IF \E c \in Codes : codes[c] # None /\ codes[c].console = s /\ ~codes[c].cancelled
  THEN "waiting" ELSE "closed"

Promise == INSTANCE PairingPromise WITH
             phase <- [s \in Sessions |-> Phase(s)],
             answers <- [s \in Sessions |-> Cardinality(DevicesOf(s))]

\* Whatever interleaves, a session's code is answered by one device at most,
\* never after it was cancelled or swept away, and a revoked device is final.
ImplementsPromise == Promise!Spec
=============================================================================
