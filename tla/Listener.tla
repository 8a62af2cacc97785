------------------------------ MODULE Listener ------------------------------
\* The one Skarbiec process: its components (capability socket, request watch,
\* HTTP listeners), the thread every accepted connection gets, the process-wide
\* write lock of the mutating routes, the operator routes that may be forwarded
\* to the vault owner, and the image check that lets launchd start an installed
\* release.  A mutating handler is a load and a save of the vault document.
\* Each client makes one connection; the handler of an operator request may make
\* one more, to the vault owner, which a declaration can name as this listener.
EXTENDS Naturals

CONSTANTS Clients,      \* the client connections
          Nobody,       \* nobody holds the write lock
          MaxInstalls   \* bound: releases installed over the running one

VARIABLES svc,        \* the process: see Started
          installed,  \* the release the installed path names
          present,    \* whether the path names a file
          declared,   \* launchd started it as its declared unit
          owner,      \* owner::selected: "none", "here", "elsewhere" or "unreadable"
          wlock,      \* the connection whose thread holds WRITE_LOCK
          conn        \* [connection -> where it stands]

lvars == <<svc, installed, present, declared, owner, wlock, conn>>

Components == {"capability", "requests", "http"}
AllRun == "none"
\* <<r, 1>> is the connection the handler of <<r, 0>> makes to the vault owner.
Conns == Clients \X {0, 1}
ASSUME ListenerAssumption == Nobody \notin Conns /\ MaxInstalls \in Nat
Onward(c) == <<c[1], 1>>
\* The routes, by what the listener tells apart of them.
HttpRoutes == {"read", "write", "status"}
OperatorRoutes == {"opread", "opwrite", "oplocal"}
Routes == HttpRoutes \cup OperatorRoutes
Unseen == [stage |-> "none", route |-> "read", forwarded |-> FALSE,
           moved |-> FALSE]  \* moved: the document was saved after this handler loaded it
\* A connection in the listen queue, and the request it carries.
Queued(route, forwarded) ==
  [stage |-> "queued", route |-> route, forwarded |-> forwarded, moved |-> FALSE]

\* runs: the release it executes; image: the one Image::when_declared found at its
\* path, which it compares with from the time it accepts; ended: the component that
\* ended first.
Started(release) == [up |-> TRUE, runs |-> release, accepting |-> FALSE, image |-> 0, ended |-> AllRun]

LInit ==
  /\ svc = Started(0)
  /\ installed = 0 /\ present = TRUE
  /\ declared \in BOOLEAN
  /\ owner \in {"none", "here", "elsewhere", "unreadable"}
  /\ wlock = Nobody
  /\ conn = [c \in Conns |-> Unseen]

At(c, stage) == conn[c].stage = stage
Serving == svc.up
Accepting == svc.up /\ svc.accepting
\* Only the first component to end is heard of.
EndedBy(component) == IF svc.ended = AllRun THEN [svc EXCEPT !.ended = component] ELSE svc
\* A thread that ends answers or drops its connection and its guard with it; a
\* lock its thread poisoned by a panic is taken over like a free one.
Closed(c) == conn' = [conn EXCEPT ![c] = [Unseen EXCEPT !.stage = "closed"]]
Released(c) == wlock' = IF wlock = c THEN Nobody ELSE wlock
Done(c) == Closed(c) /\ Released(c)
Elsewhere == UNCHANGED <<installed, present, declared, owner>>

\* Mutant: only methods that write take the lock; a status poll is a GET.
is_mutation_by_method(route) == route = "write"
\* request.rs: the routes of the consumer table the listener itself locks.
is_mutation(route) == route \in {"write", "status"}
\* operator/mod.rs: the routes an operator request is locked for, once it is
\* known to be served from this host's vault.
is_operator_mutation(route) == route \in {"opwrite", "oplocal"}
is_host_local(route) == route = "oplocal"

\* A client connects while the process listens, and gives up at any moment.
Connect(r) ==
  /\ Serving /\ At(<<r, 0>>, "none")
  /\ \E route \in Routes :
       conn' = [conn EXCEPT ![<<r, 0>>] = Queued(route, FALSE)]
  /\ UNCHANGED <<svc, wlock>> /\ Elsewhere
\* owner::dispatch of a command line, or another host: an operator request that
\* already carries the mark of a forwarded one.
owner_dispatch(r) ==
  /\ Serving /\ At(<<r, 0>>, "none")
  /\ conn' = [conn EXCEPT ![<<r, 0>>] = Queued("opwrite", TRUE)]
  /\ UNCHANGED <<svc, wlock>> /\ Elsewhere
\* survive: a connection its client reset in the listen queue ends alone.
survive(c) ==
  /\ At(c, "queued") /\ Serving
  /\ conn' = [conn EXCEPT ![c] = [Unseen EXCEPT !.stage = "aborted"]]
  /\ UNCHANGED <<svc, wlock>> /\ Elsewhere

\* Image::unchanged: a missing path is not a replacement yet; a process nobody
\* declared is not watched.
unchanged == ~declared \/ ~present \/ installed = svc.image
\* RequestPool::submit: a thread of its own, or 503 when the system has none.
submit(c) == \E stage \in {"line", "closed"} : conn' = [conn EXCEPT ![c].stage = stage]
\* Mutant: the image is compared when the process starts and never again.
accept_unwatched(c) ==
  /\ At(c, "queued") /\ Accepting /\ svc.ended # "http"
  /\ submit(c)
  /\ UNCHANGED <<svc, wlock>> /\ Elsewhere
\* The accept loop of one listener: a replaced image ends the component.
accept(c) ==
  /\ At(c, "queued") /\ Accepting /\ svc.ended # "http"
  /\ IF unchanged THEN submit(c) /\ UNCHANGED svc
     ELSE Closed(c) /\ svc' = EndedBy("http")
  /\ UNCHANGED wlock /\ Elsewhere

\* The request line names the route; a mutating one waits for the lock before
\* its headers are read.
read_line(c) ==
  /\ At(c, "line")
  /\ conn' = [conn EXCEPT ![c].stage = IF is_mutation(conn[c].route) THEN "guard" ELSE "headers"]
  /\ UNCHANGED <<svc, wlock>> /\ Elsewhere
write_guard(c) ==
  /\ At(c, "guard") /\ wlock = Nobody
  /\ wlock' = c /\ conn' = [conn EXCEPT ![c].stage = "headers"]
  /\ UNCHANGED svc /\ Elsewhere
\* The headers and the body arrive; a browser's request, a body cut short or one
\* that is not text is refused.
browser_refusal(c) ==
  /\ At(c, "headers") /\ Done(c)
  /\ UNCHANGED svc /\ Elsewhere
read_body(c) ==
  /\ At(c, "headers")
  /\ conn' = [conn EXCEPT ![c].stage = IF conn[c].route \in OperatorRoutes THEN "operator" ELSE "handler"]
  /\ UNCHANGED <<svc, wlock>> /\ Elsewhere
\* A client that drops its connection ends its own thread only.
Dropped(c) ==
  /\ conn[c].stage \in {"line", "headers"} /\ c[2] = 0 /\ Done(c)
  /\ UNCHANGED svc /\ Elsewhere

\* operator::handle: this host's vault, or the owner a declaration names; a
\* request another host forwarded here is never forwarded again.
selected == owner
refused(c) == selected = "unreadable" \/ conn[c].forwarded
Local(c) == is_host_local(conn[c].route) \/ selected = "none"
\* Mutant: the write lock is taken before it is known who serves the request.
operator_handle_locked(c) ==
  /\ At(c, "operator")
  /\ is_operator_mutation(conn[c].route) => wlock = Nobody
  /\ wlock' = IF is_operator_mutation(conn[c].route) THEN c ELSE wlock
  /\ conn' = [conn EXCEPT ![c].stage =
       IF Local(c) THEN "handler"
       ELSE IF refused(c) THEN "closed" ELSE "forward"]
  /\ UNCHANGED svc /\ Elsewhere
operator_handle(c) ==
  /\ At(c, "operator")
  /\ conn' = [conn EXCEPT ![c].stage =
       IF Local(c) THEN (IF is_operator_mutation(conn[c].route) THEN "serialized" ELSE "handler")
       ELSE IF refused(c) THEN "closed" ELSE "forward"]
  /\ UNCHANGED <<svc, wlock>> /\ Elsewhere
serialized(c) ==
  /\ At(c, "serialized") /\ wlock = Nobody
  /\ wlock' = c /\ conn' = [conn EXCEPT ![c].stage = "handler"]
  /\ UNCHANGED svc /\ Elsewhere

\* A route Stado's resolver cannot resolve is the caller's error.
resolve(c) ==
  /\ At(c, "forward") /\ Done(c)
  /\ UNCHANGED svc /\ Elsewhere
\* owner::request: the body is marked as forwarded and sent with no deadline;
\* the answer is the owner's, whatever it says.
owner_request(c) ==
  /\ At(c, "forward")
  /\ conn' = [conn EXCEPT ![c].stage = "awaiting",
       ![Onward(c)] = IF owner # "here" THEN @ ELSE Queued(conn[c].route, TRUE)]
  /\ UNCHANGED <<svc, wlock>> /\ Elsewhere
serve_request(c) ==
  /\ At(c, "awaiting")
  /\ owner = "here" => conn[Onward(c)].stage \in {"closed", "aborted"}
  /\ Done(c)
  /\ UNCHANGED svc /\ Elsewhere

\* The handler of a route: a read answers from one opening of the vault; a
\* mutating one loads the document, checks, and saves it or refuses.
Mutates(c) == is_operator_mutation(conn[c].route) \/ conn[c].route \in {"write", "status"}
reads(c) ==
  /\ At(c, "handler") /\ ~Mutates(c) /\ Done(c)
  /\ UNCHANGED svc /\ Elsewhere
load(c) ==
  /\ At(c, "handler") /\ Mutates(c)
  /\ conn' = [conn EXCEPT ![c].stage = "loaded"]
  /\ UNCHANGED <<svc, wlock>> /\ Elsewhere
\* A request that names no consumer or no bearer is answered 401 before the
\* vault is read.
presented_identity(c) ==
  /\ At(c, "handler") /\ conn[c].route \in HttpRoutes /\ Done(c)
  /\ UNCHANGED svc /\ Elsewhere
save(c) ==
  /\ At(c, "loaded")
  /\ \/ Closed(c)
     \/ conn' = [d \in Conns |-> IF d = c THEN [Unseen EXCEPT !.stage = "closed"]
                                ELSE [conn[d] EXCEPT !.moved = @ \/ At(d, "loaded")]]
  /\ Released(c)
  /\ UNCHANGED svc /\ Elsewhere
\* A thread that meets EBADF or ENOSPC hands the failure to the watch, which
\* ends its component; any other failure, and a panic, ends its request only.
descriptor_lost(c) ==
  /\ conn[c].stage \in {"line", "headers", "handler", "loaded"}
  /\ Done(c)
  /\ svc' \in {svc, EndedBy("requests")}
  /\ Elsewhere

\* A component that returns, fails or panics reports its end ...
start(component) ==
  /\ Serving /\ svc.ended = AllRun
  /\ svc' = EndedBy(component)
  /\ UNCHANGED <<wlock, conn>> /\ Elsewhere
\* ... and the first end ends the process, with every thread and connection.
ProcessEnds ==
  /\ svc' = [svc EXCEPT !.up = FALSE]
  /\ wlock' = Nobody
  /\ conn' = [c \in Conns |-> IF At(c, "none") THEN conn[c] ELSE [Unseen EXCEPT !.stage = "closed"]]
serve == Accepting /\ svc.ended # AllRun /\ ProcessEnds /\ Elsewhere
\* launchd starts the installed release again.
Launchd ==
  /\ ~Serving /\ declared /\ present
  /\ svc' = Started(installed)
  /\ UNCHANGED <<wlock, conn>> /\ Elsewhere
\* Image::when_declared, once the take-over is done and the listeners are bound: the
\* file at its path then is taken for the running one, or a path that names none
\* ends the start.  The listeners accept from here on.
when_declared ==
  /\ Serving /\ ~svc.accepting
  /\ IF declared /\ ~present THEN ProcessEnds
     ELSE svc' = [svc EXCEPT !.accepting = TRUE, !.image = installed] /\ UNCHANGED <<wlock, conn>>
  /\ Elsewhere

\* An installer replaces the file in one rename, or removes it first.
Install ==
  /\ installed < MaxInstalls
  /\ installed' = installed + 1 /\ present' = TRUE
  /\ UNCHANGED <<svc, declared, owner, wlock, conn>>
Remove ==
  /\ present /\ installed < MaxInstalls /\ present' = FALSE
  /\ UNCHANGED <<svc, installed, declared, owner, wlock, conn>>

\* What the threads of the process do by themselves; a client that has connected
\* sends its request or drops it.
Threads(c) ==
  \/ accept(c) \/ read_line(c) \/ write_guard(c) \/ read_body(c) \/ operator_handle(c)
  \/ serialized(c) \/ owner_request(c) \/ serve_request(c) \/ reads(c) \/ load(c) \/ save(c)
LNext ==
  \/ \E r \in Clients : Connect(r) \/ owner_dispatch(r)
  \/ \E c \in Conns : Threads(c) \/ survive(c) \/ browser_refusal(c) \/ Dropped(c) \/ resolve(c)
                       \/ presented_identity(c) \/ descriptor_lost(c)
  \/ \E component \in Components : start(component)
  \/ serve \/ Launchd \/ when_declared \/ Install \/ Remove

LFairness ==
  /\ \A c \in Conns : WF_lvars(Threads(c))
  /\ WF_lvars(serve) /\ WF_lvars(Launchd) /\ WF_lvars(when_declared) /\ WF_lvars(Install)
LSpec == LInit /\ [][LNext]_lvars /\ LFairness

-----------------------------------------------------------------------------
\* A handler that is to save never meets a document another thread of this
\* process saved after it loaded its own (WRITE_LOCK, http/mod.rs:103): a status
\* poll, a consumer's write and an operator's write are serial.
WritesSerial == \A c \in Conns : ~conn[c].moved

\* Every connection comes to its end although the write lock is taken before the
\* headers arrive, threads fail under it, and an operator request may be
\* forwarded to an owner that is this very listener.
RequestsEnd ==
  \A r \in Clients : At(<<r, 0>>, "queued") ~> conn[<<r, 0>>].stage \in {"closed", "aborted"}

\* A declared unit with an ended component does not go on listening incomplete:
\* it is started again whole.
EndedIsRestarted == (declared /\ svc.ended # AllRun) ~> (svc.up /\ svc.ended = AllRun)

\* A client that reaches a declared unit whose release was replaced while it accepted
\* makes the replacement or a later one run, unless the client left or another
\* install is under way.  A release installed earlier, between the process's start
\* and when_declared, is taken for the running one and waits for the next install.
InstalledIsServed ==
  \A r \in Clients, release \in 1..MaxInstalls :
    (declared /\ Accepting /\ svc.image # installed /\ installed = release /\ At(<<r, 0>>, "queued"))
      ~> (svc.runs >= release \/ ~present \/ At(<<r, 0>>, "aborted"))

\* The unit launchd watches comes back as it should be: whole after a component
\* ended, and as the installed release after an install over the one it serves.
UnitComesBack == EndedIsRestarted /\ InstalledIsServed
=============================================================================
