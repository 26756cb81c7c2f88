----------------------------- MODULE McpServer ------------------------------
(***************************************************************************)
(* The MCP server (src/mcp/handler.go): one goroutine reads requests from  *)
(* stdin, line by line, and starts a goroutine for each; these run the     *)
(* tool and write the response to stdout under a mutex, in two writes.     *)
(* At the end of the input the reader waits for them and returns; SIGTERM  *)
(* calls os.Exit (cmd/hsme/main.go).  A client sends lines without waiting *)
(* for answers, if it likes.                                               *)
(*                                                                         *)
(* Storing a memory is one step (StoreTx shows why it may be); a search    *)
(* sees what is stored when it runs.                                       *)
(***************************************************************************)
EXTENDS Integers, FiniteSets, Sequences, SequencesExt

CONSTANTS
  Requests,     \* lines the client may send, numbers in the order of sending
  Nobody        \* the mutex is free

ASSUME McpServerAssumption == Nobody \notin Requests

Kinds == {"store", "search", "unknown",   \* with an id: a tool or no such method
          "notification",                 \* without one
          "malformed"}                    \* not JSON
Answerable == {"store", "search", "unknown"}

VARIABLES
  kind,      \* what each line is
  known,     \* stores whose answers the client had when it sent the line
  pipe,      \* stdin: the lines that wait to be read
  input,     \* "open", "eof" or "broken": reads fail for good
  server,    \* the goroutine of Serve
  state,     \* the goroutine of each request
  mutex,     \* writeMutex
  memories,  \* those stored, by the request that stored them
  result,    \* what a search found
  stdout     \* what was written: <<request, "body">> and <<request, "newline">>

vars == <<kind, known, pipe, input, server, state, mutex, memories, result, stdout>>

Goroutine == {"unsent", "sent", "running", "ready", "writing", "written",
              "done", "dropped"}

TypeOK ==
  /\ kind \in [Requests -> Kinds]
  /\ known \in [Requests -> SUBSET Requests]
  /\ \A i \in DOMAIN pipe : state[pipe[i]] = "sent"
  /\ input \in {"open", "eof", "broken"}
  /\ server \in {"serving", "waiting", "returned", "killed"}
  /\ state \in [Requests -> Goroutine]
  /\ mutex \in Requests \cup {Nobody}
  /\ memories \subseteq Requests /\ result \in [Requests -> SUBSET Requests]
  /\ Range(stdout) \subseteq Requests \X {"body", "newline"}

Init ==
  /\ kind \in [Requests -> Kinds]
  /\ known = [r \in Requests |-> {}]
  /\ pipe = <<>> /\ input = "open" /\ server = "serving"
  /\ state = [r \in Requests |-> "unsent"]
  /\ mutex = Nobody
  /\ memories = {} /\ result = [r \in Requests |-> {}]
  /\ stdout = <<>>

Alive == server \in {"serving", "waiting"}
Move(r, from, to) == state[r] = from /\ state' = [state EXCEPT ![r] = to]
Answered(r) == <<r, "newline">> \in Range(stdout)

-----------------------------------------------------------------------------
(* The client.                                                             *)
Send(r) ==
  /\ input = "open"
  /\ \A q \in Requests : q < r => state[q] # "unsent"
  /\ Move(r, "unsent", "sent")
  /\ known' = [known EXCEPT ![r] = {s \in Requests : kind[s] = "store" /\ Answered(s)}]
  /\ pipe' = Append(pipe, r)
  /\ UNCHANGED <<kind, input, server, mutex, memories, result, stdout>>

(* It closes the pipe, or reads of it begin to fail.                       *)
EndInput ==
  /\ input = "open"
  /\ input' \in {"eof", "broken"}
  /\ UNCHANGED <<kind, known, pipe, server, state, mutex, memories, result, stdout>>

-----------------------------------------------------------------------------
(* Serve reads a line: one that is not JSON is reported on stderr only.    *)
ReadLine ==
  /\ server = "serving" /\ input # "broken" /\ pipe # <<>>
  /\ Move(Head(pipe), "sent", IF kind[Head(pipe)] = "malformed" THEN "dropped" ELSE "running")
  /\ pipe' = Tail(pipe)
  /\ UNCHANGED <<kind, known, input, server, mutex, memories, result, stdout>>

(* io.EOF.  (Any other error is reported and the loop reads again, for     *)
(* ever if the error stays: a step that changes nothing.)                  *)
ReadEOF ==
  /\ server = "serving" /\ input = "eof" /\ pipe = <<>>
  /\ server' = "waiting"
  /\ UNCHANGED <<kind, known, pipe, input, state, mutex, memories, result, stdout>>

InFlight == {r \in Requests : state[r] \in {"running", "ready", "writing", "written"}}

(* s.wg.Wait() and the return of Serve, with which the process ends.       *)
Return ==
  /\ server = "waiting"
  /\ InFlight = {}
  /\ server' = "returned"
  /\ UNCHANGED <<kind, known, pipe, input, state, mutex, memories, result, stdout>>

(* SIGTERM                                                                 *)
Exit ==
  /\ Alive
  /\ server' = "killed"
  /\ UNCHANGED <<kind, known, pipe, input, state, mutex, memories, result, stdout>>

-----------------------------------------------------------------------------
(* Mutant: the answer does not wait for the memory to be stored.           *)
HandleLater(r) ==
  /\ Alive
  /\ \/ /\ Move(r, "running", IF kind[r] \in Answerable THEN "ready" ELSE "done")
        /\ UNCHANGED memories
     \/ /\ kind[r] = "store" /\ state[r] \in {"ready", "written"}
        /\ memories' = memories \cup {r}
        /\ UNCHANGED state
  /\ result' = [result EXCEPT ![r] = IF kind[r] = "search" THEN memories ELSE @]
  /\ UNCHANGED <<kind, known, pipe, input, server, mutex, stdout>>

(* handleRequest runs the tool, or finds that there is none.  A            *)
(* notification has no answer.                                             *)
HandleRequest(r) ==
  /\ Alive
  /\ Move(r, "running", IF kind[r] \in Answerable THEN "ready" ELSE "done")
  /\ memories' = IF kind[r] = "store" THEN memories \cup {r} ELSE memories
  /\ result' = [result EXCEPT ![r] = IF kind[r] = "search" THEN memories ELSE @]
  /\ UNCHANGED <<kind, known, pipe, input, server, mutex, stdout>>

(* Mutant: the mutex guards nothing.                                       *)
LockFree(r) ==
  /\ Alive
  /\ Move(r, "ready", "writing")
  /\ mutex' = r
  /\ UNCHANGED <<kind, known, pipe, input, server, memories, result, stdout>>

(* sendResponse: the lock, ...                                             *)
Lock(r) ==
  /\ Alive /\ mutex = Nobody
  /\ Move(r, "ready", "writing")
  /\ mutex' = r
  /\ UNCHANGED <<kind, known, pipe, input, server, memories, result, stdout>>

(* ... the response, ...                                                   *)
WriteBody(r) ==
  /\ Alive
  /\ Move(r, "writing", "written")
  /\ stdout' = Append(stdout, <<r, "body">>)
  /\ UNCHANGED <<kind, known, pipe, input, server, mutex, memories, result>>

(* Mutant: the mutex is not released.                                      *)
WriteNewlineLocked(r) ==
  /\ Alive
  /\ Move(r, "written", "done")
  /\ stdout' = Append(stdout, <<r, "newline">>)
  /\ UNCHANGED <<kind, known, pipe, input, server, mutex, memories, result>>

(* ... the end of the line, and the lock is free again.                    *)
WriteNewline(r) ==
  /\ Alive
  /\ Move(r, "written", "done")
  /\ stdout' = Append(stdout, <<r, "newline">>)
  /\ mutex' = Nobody
  /\ UNCHANGED <<kind, known, pipe, input, server, memories, result>>

Work(r) == HandleRequest(r) \/ Lock(r) \/ WriteBody(r) \/ WriteNewline(r)
Serve   == ReadLine \/ ReadEOF \/ Return

Next ==
  \/ EndInput \/ Exit \/ Serve
  \/ \E r \in Requests : Send(r) \/ Work(r)

Spec == Init /\ [][Next]_vars

(* Goroutines run, handlers return (every call they make has a timeout),   *)
(* stdout is read, and sync.Mutex lets nobody wait for ever.               *)
FairSpec ==
  /\ Spec
  /\ WF_vars(Serve)
  /\ \A r \in Requests : WF_vars(HandleRequest(r) \/ WriteBody(r) \/ WriteNewline(r))
                         /\ SF_vars(Lock(r))

-----------------------------------------------------------------------------
(* The client finds whole lines on stdout, in whatever order the           *)
(* goroutines finish, and no request is answered twice.                    *)
LinesAreWhole ==
  /\ \A i \in DOMAIN stdout : i % 2 = 0 => /\ stdout[i - 1][2] = "body"
                                           /\ stdout[i] = <<stdout[i - 1][1], "newline">>
  /\ \A i, j \in DOMAIN stdout : stdout[i] = stdout[j] => i = j

(* A search that was sent after a store had been answered finds the        *)
(* memory, although each runs in a goroutine of its own.                   *)
ReadYourWrites ==
  \A r \in Requests :
    kind[r] = "search" /\ state[r] \in {"ready", "writing", "written", "done"} =>
      known[r] \subseteq result[r]

(* A request that was sent is answered, if nobody stops the server and the *)
(* input can be read.                                                      *)
EveryRequestAnswered ==
  \A r \in Requests :
    state[r] = "sent" /\ kind[r] \in Answerable ~>
      Answered(r) \/ server = "killed" \/ input = "broken"
=============================================================================
