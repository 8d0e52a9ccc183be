------------------------------- MODULE Shutdown -------------------------------
(***************************************************************************)
(* How the plugin is to be stopped: main.go asks for four signals on one    *)
(* channel, StartRPC of rpc/rpcserver/http.go waits on another one, and     *)
(* the status it would set makes the server refuse every request.           *)
(***************************************************************************)
EXTENDS Naturals

CONSTANT MaxSignals   \* bound: how many signals are sent

VARIABLES
  process,   \* "starting", "notified", "serving" or "killed"
  notify,    \* makers of the channels signal.Notify was called with
  waiting,   \* makers of the channels a goroutine receives from
  received,  \* channels that got a signal
  signals,   \* signals sent to the process
  late,      \* a signal was sent while the server was serving
  status     \* Server.status

vars == <<process, notify, waiting, received, signals, late, status>>

Init ==
  /\ process = "starting"
  /\ notify = {}
  /\ waiting = {}
  /\ received = {}
  /\ signals = 0
  /\ late = FALSE
  /\ status = 0

\* signal.Notify(make(chan os.Signal), ...)
Notify ==
  /\ process = "starting"
  /\ process' = "notified"
  /\ notify' = notify \union {"main"}
  /\ UNCHANGED <<waiting, received, signals, late, status>>

\* StartRPC: the goroutine that receives from a channel of its own, and the
\* server.
StartRPC ==
  /\ process = "notified"
  /\ process' = "serving"
  /\ waiting' = waiting \union {"StartRPC"}
  /\ UNCHANGED <<notify, received, signals, late, status>>

\* A signal that was asked for is offered to the channels and otherwise
\* ignored; package signal does not wait for a receiver.  One that was not
\* asked for ends the process.
Signal ==
  /\ process # "killed"
  /\ signals < MaxSignals
  /\ signals' = signals + 1
  /\ process' = IF notify = {} THEN "killed" ELSE process
  /\ received' = received \union (notify \intersect waiting)
  /\ late' = (late \/ process = "serving")
  /\ UNCHANGED <<notify, waiting, status>>

\* The goroutine of StartRPC got its signal: SetState(1).
SetState ==
  /\ "StartRPC" \in received
  /\ status' = 1
  /\ UNCHANGED <<process, notify, waiting, received, signals, late>>

Next == Notify \/ StartRPC \/ Signal \/ SetState

\* The goroutines of main and of StartRPC keep running.
Fairness == WF_vars(Notify) /\ WF_vars(StartRPC) /\ WF_vars(SetState)

FairSpec == Init /\ [][Next]_vars /\ Fairness

\* "Listen for the exit signal", "close the network service" (http.go:31, 33):
\* a signal sent to the running process closes the server.
SignalClosesServer == late ~> status = 1
=============================================================================
