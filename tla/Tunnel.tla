-------------------------------- MODULE Tunnel --------------------------------
(***************************************************************************)
(* One dial through a proxy (internal/proxypool): Pool.DialContext with    *)
(* endpoint.dialContext and its cancellationWatcher.  Three parties act on *)
(* the connection: the dialing goroutine, the function that AfterFunc      *)
(* starts in a goroutine of its own when the context ends, and the proxy,  *)
(* which may stay silent for ever.  The dial context ends by the caller's  *)
(* context, by its timer, or by the cancel that DialContext defers.        *)
(***************************************************************************)
EXTENDS Integers

CONSTANTS
  Schemes,    \* the schemes of proxies to consider
  MaxCloses   \* bound: how often the client closes what it was given

ASSUME SchemesAssumption   == Schemes \subseteq {"http", "https", "socks"}
ASSUME MaxClosesAssumption == MaxCloses \in Nat

VARIABLES
  scheme,    \* the scheme of the endpoint
  ended,     \* dialContext.Err() # nil
  late,      \* the deadline of dialContext has passed
  pc,        \* where the dialing goroutine is
  reply,     \* what the network has for it: "none", "good", "bad"
  conn,      \* the connection: "none", "open", "closed"
  deadline,  \* whether the connection has a deadline
  watcher,   \* the AfterFunc: "none", "armed", "started", "closed" (its
             \* result is in closeResult), "stopped"
  closes,    \* history: how often the code of the pool closed the connection
  result,    \* what DialContext returned: "none", "conn", "error"
  released   \* how often the client closed the connection

vars == <<scheme, ended, late, pc, reply, conn, deadline, watcher, closes,
          result, released>>

Init ==
  /\ scheme \in Schemes
  /\ ended = FALSE
  /\ late = FALSE
  /\ pc = "connect"
  /\ reply = "none"
  /\ conn = "none"
  /\ deadline = FALSE
  /\ watcher = "none"
  /\ closes = 0
  /\ result = "none"
  /\ released = 0

-----------------------------------------------------------------------------
(* The surroundings. *)

End ==
  /\ ~ended
  /\ ended' = TRUE
  /\ UNCHANGED <<scheme, late, pc, reply, conn, deadline, watcher, closes,
                 result, released>>

DeadlinePasses ==
  /\ ~late
  /\ late' = TRUE
  /\ UNCHANGED <<scheme, ended, pc, reply, conn, deadline, watcher, closes,
                 result, released>>

(* The proxy answers what the dialer is waiting for, or breaks it off. *)
Answer ==
  /\ pc \in {"connect", "tls", "write", "read"}
  /\ reply = "none"
  /\ conn # "closed"
  /\ reply' \in {"good", "bad"}
  /\ UNCHANGED <<scheme, ended, late, pc, conn, deadline, watcher, closes,
                 result, released>>

(* The client closes the tracked connection, maybe more than once. *)
ClientCloses ==
  /\ result = "conn"
  /\ released < MaxCloses
  /\ released' = released + 1
  /\ conn' = "closed"
  /\ UNCHANGED <<scheme, ended, late, pc, reply, deadline, watcher, closes,
                 result>>

-----------------------------------------------------------------------------
(* The function given to context.AfterFunc. *)

WatcherStarts ==
  /\ watcher = "armed"
  /\ ended
  /\ watcher' = "started"
  /\ UNCHANGED <<scheme, ended, late, pc, reply, conn, deadline, closes,
                 result, released>>

WatcherCloses ==
  /\ watcher = "started"
  /\ watcher' = "closed"
  /\ conn' = "closed"
  /\ closes' = closes + 1
  /\ UNCHANGED <<scheme, ended, late, pc, reply, deadline, result, released>>

WatcherNext == WatcherStarts \/ WatcherCloses

-----------------------------------------------------------------------------
(* The dialing goroutine.  To fail without a connection is to return; to   *)
(* fail with one is to close it first, through the watcher once there is   *)
(* one.                                                                    *)

(* The waiting of the dialer ends: with an answer, or because the          *)
(* connection was closed or its deadline has passed.                       *)
Wakes == reply # "none" \/ conn = "closed" \/ (deadline /\ late)

CloseAndFail ==
  /\ conn' = "closed"
  /\ closes' = closes + 1
  /\ pc' = "failed"

(* The base dialer, or the SOCKS dialer for the whole tunnel: both watch   *)
(* the context and its deadline themselves and leave nothing open when     *)
(* they fail.                                                              *)
Connect ==
  /\ pc = "connect"
  /\ \/ /\ reply = "good"
        /\ conn' = "open"
        /\ pc' = IF scheme = "socks" THEN "return" ELSE "deadline"
     \/ /\ reply = "bad" \/ ended \/ late
        /\ pc' = "failed"
        /\ UNCHANGED conn
  /\ reply' = "none"
  /\ UNCHANGED <<scheme, ended, late, deadline, watcher, closes, result,
                 released>>

SetDeadline ==
  /\ pc = "deadline"
  /\ \/ /\ deadline' = TRUE
        /\ pc' = IF scheme = "https" THEN "tls" ELSE "watch"
        /\ UNCHANGED <<conn, closes>>
     \/ CloseAndFail /\ UNCHANGED deadline
  /\ UNCHANGED <<scheme, ended, late, reply, watcher, result, released>>

(* HandshakeContext watches the context itself.  When the handshake is     *)
(* over its success and the end of the context may still race.             *)
Handshake ==
  /\ pc = "tls"
  /\ \/ reply = "good" /\ pc' = "watch" /\ UNCHANGED <<conn, closes>>
     \/ (reply = "bad" \/ ended \/ late) /\ CloseAndFail
  /\ reply' = "none"
  /\ UNCHANGED <<scheme, ended, late, deadline, watcher, result, released>>

Watch ==
  /\ pc = "watch"
  /\ watcher' = "armed"
  /\ pc' = "write"
  /\ UNCHANGED <<scheme, ended, late, reply, conn, deadline, closes, result,
                 released>>

(* request.Write: it needs no answer, but the connection may break. *)
WriteRequest ==
  /\ pc = "write"
  /\ \/ reply # "bad" /\ conn = "open" /\ pc' = "read" /\ UNCHANGED reply
     \/ /\ reply = "bad" \/ conn = "closed" \/ late
        /\ pc' = "giveup"
        /\ reply' = "none"
  /\ UNCHANGED <<scheme, ended, late, conn, deadline, watcher, closes, result,
                 released>>

(* http.ReadResponse and the test of its status *)
ReadResponse ==
  /\ pc = "read"
  /\ Wakes
  /\ pc' \in {IF reply = "good" THEN "stop" ELSE "giveup"}
             \cup (IF conn = "closed" \/ late THEN {"giveup"} ELSE {})
  /\ reply' = "none"
  /\ UNCHANGED <<scheme, ended, late, conn, deadline, watcher, closes, result,
                 released>>

(* stopWatching: stop() either prevents the function from running, or the  *)
(* caller waits for the result of its Close.                               *)
StopWatching(stopped, closed) ==
  /\ \/ watcher = "armed" /\ watcher' = "stopped" /\ pc' = stopped
     \/ watcher = "closed" /\ pc' = closed /\ UNCHANGED watcher
  /\ UNCHANGED <<conn, closes>>

(* Mutant of GiveUp: the watcher is left armed and the connection closed. *)
GiveUpArmed ==
  /\ pc = "giveup"
  /\ CloseAndFail
  /\ UNCHANGED <<scheme, ended, late, reply, deadline, watcher, result,
                 released>>

(* watcher.closeWithError *)
GiveUp ==
  /\ pc = "giveup"
  /\ StopWatching("close", "failed")
  /\ UNCHANGED <<scheme, ended, late, reply, deadline, result, released>>

Close ==
  /\ pc = "close"
  /\ CloseAndFail
  /\ UNCHANGED <<scheme, ended, late, reply, deadline, watcher, result,
                 released>>

(* Mutant of Stop: a dial that succeeds does not stop its watcher. *)
StopForgotten ==
  /\ pc = "stop"
  /\ pc' = "check"
  /\ UNCHANGED <<scheme, ended, late, reply, conn, deadline, watcher, closes,
                 result, released>>

Stop ==
  /\ pc = "stop"
  /\ StopWatching("check", "failed")
  /\ UNCHANGED <<scheme, ended, late, reply, deadline, result, released>>

(* if err := ctx.Err(), after the watcher was stopped *)
CheckContext ==
  /\ pc = "check"
  /\ pc' = IF ended THEN "close" ELSE "clear"
  /\ UNCHANGED <<scheme, ended, late, reply, conn, deadline, watcher, closes,
                 result, released>>

ClearDeadline ==
  /\ pc = "clear"
  /\ \/ deadline' = FALSE /\ pc' = "return" /\ UNCHANGED <<conn, closes>>
     \/ CloseAndFail /\ UNCHANGED deadline
  /\ UNCHANGED <<scheme, ended, late, reply, watcher, result, released>>

(* Pool.DialContext has a connection.  If its context has ended meanwhile  *)
(* the connection is closed; on the way out the context is cancelled.      *)
Return ==
  /\ pc = "return"
  /\ IF ended
     THEN CloseAndFail /\ UNCHANGED <<ended, result>>
     ELSE /\ pc' = "done"
          /\ result' = "conn"
          /\ ended' = TRUE
          /\ UNCHANGED <<conn, closes>>
  /\ UNCHANGED <<scheme, late, reply, deadline, watcher, released>>

(* The slot of the proxy is released and the error returned. *)
Fail ==
  /\ pc = "failed"
  /\ pc' = "done"
  /\ result' = "error"
  /\ ended' = TRUE
  /\ UNCHANGED <<scheme, late, reply, conn, deadline, watcher, closes,
                 released>>

DialNext ==
  \/ Connect \/ SetDeadline \/ Handshake \/ Watch \/ WriteRequest
  \/ ReadResponse \/ GiveUp \/ Close \/ Stop \/ CheckContext
  \/ ClearDeadline \/ Return \/ Fail

Next ==
  \/ DialNext \/ WatcherNext \/ Answer \/ End \/ DeadlinePasses
  \/ ClientCloses
  \/ result # "none" /\ UNCHANGED vars

Spec == Init /\ [][Next]_vars

-----------------------------------------------------------------------------

TypeOK ==
  /\ scheme \in Schemes
  /\ ended \in BOOLEAN
  /\ late \in BOOLEAN
  /\ pc \in {"connect", "deadline", "tls", "watch", "write", "read", "giveup",
             "close", "stop", "check", "clear", "return", "failed", "done"}
  /\ reply \in {"none", "good", "bad"}
  /\ conn \in {"none", "open", "closed"}
  /\ deadline \in BOOLEAN
  /\ watcher \in {"none", "armed", "started", "closed", "stopped"}
  /\ closes \in 0..1
  /\ result \in {"none", "conn", "error"}
  /\ released \in 0..MaxCloses

(* The context of the dial is cancelled as soon as DialContext returns.    *)
(* Still a connection that was handed over stays open, without deadline,   *)
(* until its client closes it: no watcher can close it later.              *)
HandedOverStaysOpen ==
  result = "conn" =>
    /\ released = 0 => conn = "open"
    /\ ~deadline
    /\ watcher \notin {"armed", "started"}

(* A dial that failed leaves neither an open connection nor a goroutine    *)
(* behind, whoever of the two closed the connection.                       *)
FailedLeavesNothing ==
  result = "error" =>
    conn # "open" /\ watcher \notin {"armed", "started"}

(* The dialer and the watcher agree on who closes: neither closes a        *)
(* connection that the other one or its client has closed, or one that was *)
(* handed over.                                                            *)
ClosedOnce ==
  [][closes' # closes => conn = "open" /\ result = "none"]_vars

(* The inductive invariant: who may close the connection, label by label.  *)
Untouched == conn = "open" /\ closes = 0
Unwatched == watcher \in {"none", "stopped"}

TunnelInv ==
  /\ pc = "connect" => conn = "none" /\ closes = 0 /\ watcher = "none"
  /\ pc \in {"connect", "deadline"} => ~deadline
  /\ pc \in {"deadline", "tls", "watch"} => Untouched /\ watcher = "none"
  /\ pc \in {"write", "read", "giveup", "stop"} =>
       \/ watcher \in {"armed", "started"} /\ Untouched
       \/ watcher = "closed" /\ conn = "closed" /\ closes = 1
  /\ pc \in {"close", "check", "clear"} => Untouched /\ watcher = "stopped"
  /\ pc = "return" => Untouched /\ Unwatched /\ ~deadline
  /\ pc = "failed" \/ result = "error" =>
       conn # "open" /\ (Unwatched \/ watcher = "closed")
  /\ result = "conn" =>
       /\ Unwatched /\ closes = 0 /\ ~deadline
       /\ released = 0 => conn = "open"
  /\ pc = "done" <=> result # "none"
  /\ released > 0 => result = "conn"
=============================================================================
