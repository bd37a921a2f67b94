------------------------------ MODULE LogStream ------------------------------
(***************************************************************************)
(* The logs of a pod.  Each container that is to be shown has its stream,  *)
(* started once: the whole log over HTTP when the container has            *)
(* terminated, a WebSocket otherwise.  A socket that fails is opened       *)
(* again, a bounded number of times, and the new one begins with the first *)
(* line.  On a hub the stream goes through the proxy to a spoke cluster,   *)
(* which may also close it before the container is ready.                  *)
(*                                                                         *)
(* What the page takes for the end of the run, pipelineRunFinished, is     *)
(* that its status is not Running: it is so before the run is Running and  *)
(* while it is being cancelled, with containers that still write.          *)
(*                                                                         *)
(* A line is its number; how text is laid out is left out.                 *)
(***************************************************************************)
EXTENDS Naturals, Sequences

CONSTANTS
  N,            \* containers 1 .. N, in the order in which they are shown
  MaxRetries,   \* 5 on a local cluster
  MaxMcRetries, \* 10 through the proxy
  MaxLines,     \* bound: lines that a container writes, and that two write together
  MaxLogFaults     \* bound: sockets that fail without a reason, reads that fail

\* For the modules that extend or instantiate this one to assume.
LogAssumption ==
  /\ N \in Nat /\ MaxLines \in Nat /\ MaxLogFaults \in Nat
  /\ MaxRetries \in Nat /\ MaxMcRetries \in Nat

VARIABLES
  logMounted,
  managed,  \* isResourceManagedByKueue
  phase,    \* of each container
  written,  \* lines it has written
  podSeen,     \* its phase in the pod that the page has
  pipelineStatus, \* "over" stands for Cancelling as well as for every status at the end
  tickDue,  \* of the poll of a hub's pods: a last tick is to come although it has stopped
  stream,   \* of each container; "none" until it is one of activeContainers
  attempt,  \* retryCount of its socket
  pos,      \* lines that this socket has brought
  resourceStatus, \* podSeen when its stream began, which the callbacks keep
  logText,     \* what is shown, in logData
  logError,
  torn,     \* history: containers with a socket that failed after it had brought lines
  early,    \* history: containers whose log was read, as a whole, while they ran
  logFaults

Containers == 1 .. N
pod == <<phase, written, podSeen, pipelineStatus, tickDue>>
sockets == <<stream, attempt, pos, resourceStatus, torn, early>>
logVars == <<logMounted, managed, pod, sockets, logText, logError, logFaults>>

Ended == {"fetched", "unreadable", "closed", "cut", "gaveUp", "stopped"}

\* pipelineRunFinished
finished == pipelineStatus # "running"

Phase == {"waiting", "running", "terminated"}

Retries == IF managed THEN MaxMcRetries ELSE MaxRetries

LogTypeOK ==
  /\ logMounted \in BOOLEAN /\ managed \in BOOLEAN /\ tickDue \in BOOLEAN /\ logError \in BOOLEAN
  /\ pipelineStatus \in {"pending", "running", "over"}
  /\ phase \in [Containers -> Phase] /\ podSeen \in [Containers -> Phase]
  /\ resourceStatus \in [Containers -> Phase]
  /\ written \in [Containers -> 0 .. MaxLines]
  /\ stream \in [Containers -> {"none", "http", "connecting", "open", "retrying"} \cup Ended]
  /\ attempt \in [Containers -> 0 .. Retries]
  /\ pos \in [Containers -> 0 .. MaxLines]
  /\ logText \in [Containers -> Seq(1 .. MaxLines)]
  /\ torn \subseteq Containers /\ early \subseteq Containers
  /\ logFaults \in 0 .. MaxLogFaults

LogInit ==
  /\ logMounted \in BOOLEAN /\ managed \in BOOLEAN
  /\ phase = [c \in Containers |-> "waiting"]
  /\ podSeen = phase
  /\ written = [c \in Containers |-> 0]
  /\ pipelineStatus \in {"pending", "running"}
  /\ managed \/ pipelineStatus = "running"
  /\ tickDue = TRUE
  /\ stream = [c \in Containers |-> "none"]
  /\ attempt = [c \in Containers |-> 0]
  /\ pos = [c \in Containers |-> 0]
  /\ resourceStatus = phase
  /\ logText = [c \in Containers |-> <<>>]
  /\ logError = FALSE
  /\ torn = {} /\ early = {}
  /\ logFaults = 0

-----------------------------------------------------------------------------
(***************************************************************************)
(* The pod, and what the page knows of it.                                 *)
(***************************************************************************)

SetPhase(c, from, to) == phase[c] = from /\ phase' = [phase EXCEPT ![c] = to]

\* The steps of a TaskRun run one after the other.
StartContainer(c) ==
  /\ logMounted
  /\ \A b \in 1 .. c - 1 : phase[b] = "terminated"
  /\ SetPhase(c, "waiting", "running")
  /\ UNCHANGED <<logMounted, managed, written, podSeen, pipelineStatus, tickDue, sockets,
                 logText, logError, logFaults>>

WriteLine(c) ==
  /\ logMounted /\ phase[c] = "running" /\ written[c] < MaxLines
  /\ \A b \in Containers \ {c} : written[b] + written[c] < MaxLines
  /\ written' = [written EXCEPT ![c] = @ + 1]
  /\ UNCHANGED <<logMounted, managed, phase, podSeen, pipelineStatus, tickDue, sockets,
                 logText, logError, logFaults>>

Terminate(c) ==
  /\ logMounted /\ SetPhase(c, "running", "terminated")
  /\ UNCHANGED <<logMounted, managed, written, podSeen, pipelineStatus, tickDue, sockets,
                 logText, logError, logFaults>>

\* The watch of the pod, or on a hub the poll of the spoke's pods.  The poll stops when the run
\* is taken for finished; a change of its delay still runs one tick.
PodUpdate ==
  /\ logMounted /\ podSeen # phase
  /\ managed /\ finished => tickDue
  /\ podSeen' = phase
  /\ tickDue' = (tickDue /\ ~(managed /\ finished))
  /\ UNCHANGED <<logMounted, managed, phase, written, pipelineStatus, sockets, logText, logError,
                 logFaults>>

\* The status of the run, whatever its containers do: they may still write when it is over.
\* Only on a hub does a log depend on it.
RunStatus ==
  /\ logMounted /\ managed
  /\ \/ pipelineStatus = "pending" /\ pipelineStatus' \in {"running", "over"}
     \/ pipelineStatus = "running" /\ pipelineStatus' = "over"
  /\ tickDue' = (tickDue \/ finished' # finished)
  /\ UNCHANGED <<logMounted, managed, phase, written, podSeen, sockets, logText, logError,
                 logFaults>>

-----------------------------------------------------------------------------
(***************************************************************************)
(* Streams.                                                                *)
(***************************************************************************)

\* The containers up to the first that is not known to have terminated.
Rendered == {c \in Containers : \A b \in 1 .. c - 1 : podSeen[b] = "terminated"}

To(c, next) == stream' = [stream EXCEPT ![c] = next]

LogFault == logFaults < MaxLogFaults /\ logFaults' = logFaults + 1

\* Mutant: what has been written so far is taken for the whole log.
ShouldUseHttpEarly(c) == podSeen[c] # "waiting"

ShouldUseHttp(c) == podSeen[c] = "terminated" \/ (managed /\ finished)

\* Mutant: the effect starts a stream for a container that has one.
StartStreamAgain(c) ==
  /\ logMounted /\ c \in Rendered
  /\ stream[c] \notin {"http", "connecting", "retrying"}
  /\ To(c, IF ShouldUseHttp(c) THEN "http" ELSE "connecting")
  /\ resourceStatus' = [resourceStatus EXCEPT ![c] = podSeen[c]]
  /\ pos' = [pos EXCEPT ![c] = 0]
  /\ UNCHANGED <<logMounted, managed, pod, attempt, logText, logError, torn, early, logFaults>>

\* The effect goes over the containers; its per-container clean-up is returned to forEach and
\* never called.
StartStream(c) ==
  /\ logMounted /\ c \in Rendered
  /\ stream[c] = "none"
  /\ To(c, IF ShouldUseHttp(c) THEN "http" ELSE "connecting")
  /\ resourceStatus' = [resourceStatus EXCEPT ![c] = podSeen[c]]
  /\ UNCHANGED <<logMounted, managed, pod, attempt, pos, logText, logError, torn, early,
                 logFaults>>

Log(c) == [i \in 1 .. written[c] |-> i]

\* appendMessage, of a text that is not empty: what is shown of a container that had terminated
\* is replaced, the text of another one is added.
Shown(c, text) == IF resourceStatus[c] = "terminated" THEN text ELSE logText[c] \o text

\* One request for what there is, a container that has not started has no log to read.
FetchText(c) ==
  /\ logMounted /\ stream[c] = "http"
  /\ \/ /\ phase[c] # "waiting"
        /\ To(c, "fetched")
        /\ logText' = [logText EXCEPT ![c] = IF Log(c) = <<>> THEN @ ELSE Shown(c, Log(c))]
        /\ early' = IF phase[c] = "terminated" THEN early ELSE early \cup {c}
        /\ UNCHANGED <<logError, logFaults>>
     \/ /\ IF phase[c] = "waiting" THEN UNCHANGED logFaults ELSE LogFault
        /\ To(c, "unreadable") /\ logError' = TRUE
        /\ UNCHANGED <<logText, early>>
  /\ UNCHANGED <<logMounted, managed, pod, attempt, pos, resourceStatus, torn>>

Open(c) ==
  /\ logMounted /\ stream[c] = "connecting" /\ phase[c] # "waiting"
  /\ To(c, "open")
  /\ UNCHANGED <<logMounted, managed, pod, attempt, pos, resourceStatus, logText, logError, torn,
                 early, logFaults>>

\* appendMessage, of a container that had not terminated when its socket was first opened.
Message(c) ==
  /\ logMounted /\ stream[c] = "open" /\ pos[c] < written[c]
  /\ pos' = [pos EXCEPT ![c] = @ + 1]
  /\ logText' = [logText EXCEPT ![c] = Append(@, pos[c] + 1)]
  /\ logError' = FALSE
  /\ UNCHANGED <<logMounted, managed, pod, stream, attempt, resourceStatus, torn, early,
                 logFaults>>

\* Mutant: one retry more than there should be.
HandleErrorOnceMore(c) ==
  IF attempt[c] <= Retries THEN To(c, "retrying") /\ UNCHANGED logError
  ELSE To(c, "gaveUp") /\ logError' = TRUE

\* handleError, and handleRetry of a hub.
HandleError(c) ==
  IF managed /\ finished THEN To(c, "stopped") /\ UNCHANGED logError
  ELSE IF attempt[c] < Retries THEN To(c, "retrying") /\ UNCHANGED logError
  ELSE To(c, "gaveUp") /\ logError' = TRUE

\* There is nothing to connect to before the container runs; a connection may also break.
SocketError(c) ==
  /\ logMounted /\ stream[c] \in {"connecting", "open"}
  /\ IF phase[c] = "waiting" THEN UNCHANGED logFaults ELSE LogFault
  /\ HandleError(c)
  /\ torn' = IF pos[c] > 0 THEN torn \cup {c} ELSE torn
  /\ UNCHANGED <<logMounted, managed, pod, attempt, pos, resourceStatus, logText, early>>

\* The end of the log, or a connection that is closed too early, which only a hub notices,
\* and only while the socket has brought nothing.
SocketClose(c) ==
  /\ logMounted /\ stream[c] = "open"
  /\ LET complete == phase[c] = "terminated" /\ pos[c] = written[c]
     IN  /\ IF complete THEN UNCHANGED logFaults ELSE LogFault
         /\ IF managed /\ pos[c] = 0 THEN HandleError(c)
            ELSE To(c, IF complete THEN "closed" ELSE "cut") /\ UNCHANGED logError
  /\ UNCHANGED <<logMounted, managed, pod, attempt, pos, resourceStatus, logText, torn, early>>

\* Mutant: the count of the retries is not passed on.
RetryUncounted(c) ==
  /\ logMounted /\ stream[c] = "retrying"
  /\ To(c, "connecting")
  /\ pos' = [pos EXCEPT ![c] = 0]
  /\ UNCHANGED <<logMounted, managed, pod, attempt, resourceStatus, logText, logError, torn, early,
                 logFaults>>

\* The timer of three seconds.
Retry(c) ==
  /\ logMounted /\ stream[c] = "retrying"
  /\ IF managed /\ finished THEN To(c, "stopped") /\ UNCHANGED <<attempt, pos>>
     ELSE /\ To(c, "connecting")
          /\ attempt' = [attempt EXCEPT ![c] = @ + 1]
          /\ pos' = [pos EXCEPT ![c] = 0]
  /\ UNCHANGED <<logMounted, managed, pod, resourceStatus, logText, logError, torn, early,
                 logFaults>>

\* The page is left; or a poll of a hub's pods fails, which puts the log that Tekton Results has
\* in the place of the streams, for good (mcError is never cleared).
LogUnmount ==
  /\ logMounted /\ logMounted' = FALSE
  /\ UNCHANGED <<managed, pod, sockets, logText, logError, logFaults>>

SocketStep(c) ==
  StartStream(c) \/ FetchText(c) \/ Open(c) \/ Message(c) \/ SocketClose(c) \/ Retry(c)
    \/ SocketError(c)

LogNext ==
  \/ \E c \in Containers : StartContainer(c) \/ WriteLine(c) \/ Terminate(c) \/ SocketStep(c)
  \/ PodUpdate
  \/ RunStatus
  \/ LogUnmount

\* Effects and timers run, the network answers; the pod owes nothing.
LogFairness == WF_logVars(PodUpdate) /\ \A c \in Containers : WF_logVars(SocketStep(c))

LogSpec == LogInit /\ [][LogNext]_logVars /\ LogFairness

-----------------------------------------------------------------------------
(***************************************************************************)
(* Properties.                                                             *)
(***************************************************************************)

\* However often the effect runs again and whatever is retried, no line is shown twice or out
\* of order unless a connection broke in the middle (activeContainers; the new socket then
\* brings the lines again).
NoLineTwice ==
  \A c \in Containers \ torn : \A i \in DOMAIN logText[c] : logText[c][i] = i

\* A stream that came to its end has shown the whole log: a closed socket or a read leaves no
\* line out, even after connections that broke.  Only on a hub, when the run was not Running, is
\* a container read that had not terminated, and what it writes later is never shown.
WholeLogShown ==
  /\ \A c \in Containers \ early :
       stream[c] \in {"fetched", "closed"} =>
         LET missing == Len(logText[c]) - written[c]
         IN  /\ written[c] <= Len(logText[c])
             /\ \A i \in 1 .. written[c] : logText[c][missing + i] = i
  /\ \A c \in early : managed /\ resourceStatus[c] # "terminated" /\ stream[c] = "fetched"

\* A stream that was started gets its connection or comes to an end: retries end, also when
\* the container never starts.
StreamsConnectOrEnd ==
  \A c \in Containers :
    []<>(stream[c] \notin {"http", "connecting", "retrying"} \/ ~logMounted)
=============================================================================
