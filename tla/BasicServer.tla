------------------------------ MODULE BasicServer ------------------------------
(***************************************************************************)
(* pkg/basicserver/basicserver.go: the HTTP server of previewd and the way *)
(* it is shut down.  One goroutine is inside ListenAndServe; Shutdown stops*)
(* the listener, waits for the requests in flight and then for that        *)
(* goroutine, over the unbuffered channel exitchan.                        *)
(***************************************************************************)
EXTENDS Naturals

CONSTANTS Posts,  \* the HTTP requests
          Env     \* what the surroundings may do, see Startup

VARIABLES server,  \* where the server's goroutine is
          post,    \* the life of each request
          shut     \* where each caller of Shutdown is

serverVars == <<server, post, shut>>

\* The main goroutine through WaitforInterupt, and WebhookListener.Shutdown.
Callers == {"main", "listener"}

ServerTypeOK ==
  /\ server \in {"off", "starting", "serving", "closed", "exited", "panicked"}
  /\ post \in [Posts -> {"new", "inflight", "answered"}]
  /\ shut \in [Callers -> {"none", "refused", "draining", "waiting", "returned"}]

ServerInit ==
  /\ server = "off"
  /\ post = [p \in Posts |-> "new"]
  /\ shut = [c \in Callers |-> "none"]

ShuttingDown == \E c \in Callers : shut[c] \notin {"none", "refused"}

\* StartListen makes exitchan and starts the goroutine.
StartListen ==
  /\ server = "off"
  /\ server' = "starting"
  /\ UNCHANGED <<post, shut>>

\* Seeded fault: a shutdown that came first is not noticed.
ListenRegardless ==
  /\ server = "starting"
  /\ \/ server' = "serving"
     \/ "portbusy" \in Env /\ server' = "panicked"
  /\ UNCHANGED <<post, shut>>

\* ListenAndServe opens the port.  It returns at once when the server has
\* been shut down already; any other error is a panic.
ListenAndServe ==
  /\ server = "starting"
  /\ \/ ~ShuttingDown /\ server' = "serving"
     \/ ShuttingDown /\ server' = "closed"
     \/ ~ShuttingDown /\ "portbusy" \in Env /\ server' = "panicked"
  /\ UNCHANGED <<post, shut>>

\* External: a client's request reaches its handler.
Arrive(p) ==
  /\ server = "serving"
  /\ post[p] = "new"
  /\ post' = [post EXCEPT ![p] = "inflight"]
  /\ UNCHANGED <<server, shut>>

Answer(p) ==
  /\ post[p] = "inflight"
  /\ post' = [post EXCEPT ![p] = "answered"]
  /\ UNCHANGED <<server, shut>>

\* Shutdown: an error before StartListen has made exitchan; otherwise
\* http.Server.Shutdown closes the listener, so ListenAndServe returns, ...
Shutdown(c) ==
  /\ shut[c] = "none"
  /\ shut' = [shut EXCEPT ![c] = IF server = "off" THEN "refused" ELSE "draining"]
  /\ server' = IF server = "serving" THEN "closed" ELSE server
  /\ UNCHANGED post

\* Seeded fault: connections are closed rather than drained.
DrainedAtOnce(c) ==
  /\ shut[c] = "draining"
  /\ shut' = [shut EXCEPT ![c] = "waiting"]
  /\ UNCHANGED <<server, post>>

\* ... and waits, without a limit, until no request is in flight.
Drained(c) ==
  /\ shut[c] = "draining"
  /\ \A p \in Posts : post[p] # "inflight"
  /\ shut' = [shut EXCEPT ![c] = "waiting"]
  /\ UNCHANGED <<server, post>>

\* bs.exitchan <- true, once, meets <-bs.exitchan.
ServerExits(c) ==
  /\ server = "closed"
  /\ shut[c] = "waiting"
  /\ server' = "exited"
  /\ shut' = [shut EXCEPT ![c] = "returned"]
  /\ UNCHANGED post

=============================================================================
