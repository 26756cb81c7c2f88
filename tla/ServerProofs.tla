---------------------------- MODULE ServerProofs ----------------------------
(***************************************************************************)
(* Proofs about what a client of the MCP server sees.                      *)
(*                                                                         *)
(* McpServer: for any number of requests, whatever order the goroutines    *)
(* run in and wherever the server is stopped, stdout consists of whole     *)
(* lines, no request is answered twice, and a search finds what the client *)
(* had been told was stored.                                               *)
(*                                                                         *)
(* Search: whatever is written between the queries of a search, its answer *)
(* is of one piece.  The proofs rest on what ORDER BY, WHERE and LIMIT do  *)
(* to a list without repetition; each search has an invariant that says    *)
(* what its queries so far have in common with the tables now.             *)
(***************************************************************************)
EXTENDS McpServer, Search, FiniteSetTheorems, SequenceTheorems, TLAPS

Writes == Requests \X {"body", "newline"}   \* what one write puts on stdout

(* A line is in the pipe once, so ReadLine takes its request just once.    *)
Piped ==
  /\ pipe \in Seq(Requests)
  /\ \A i, j \in DOMAIN pipe : pipe[i] = pipe[j] => i = j

Shape == TypeOK /\ Piped /\ stdout \in Seq(Writes)

(* The mutex belongs to the goroutine between its two writes.              *)
MutexHeld ==
  \A r \in Requests : state[r] \in {"writing", "written"} <=> mutex = r

(* A line is unfinished only while its goroutine holds the mutex.          *)
Unfinished ==
  /\ \A r \in Requests :
       state[r] = "written" =>
         /\ Len(stdout) % 2 = 1
         /\ stdout[Len(stdout)] = <<r, "body">>
  /\ (\A r \in Requests : state[r] # "written") => Len(stdout) % 2 = 0

(* Whatever is on stdout was written by a goroutine that is done, except   *)
(* for the unfinished line at the end.                                     *)
WrittenByDone ==
  \A i \in DOMAIN stdout :
    LET r == stdout[i][1]
    IN  state[r] = "done" \/ (state[r] = "written" /\ i = Len(stdout))

OutputInv == Shape /\ MutexHeld /\ Unfinished /\ WrittenByDone /\ LinesAreWhole

(* What a request that has been handled leaves behind.                     *)
Handled(r) == state[r] \in {"ready", "writing", "written", "done"}

StoredWhenHandled ==
  \A r \in Requests : kind[r] = "store" /\ Handled(r) => r \in memories

(* The client knows only of memories that are stored; a search that runs   *)
(* from now on finds them.                                                 *)
KnownIsStored == \A r \in Requests : known[r] \subseteq memories

ReadInv == StoredWhenHandled /\ KnownIsStored /\ ReadYourWrites

Inv == OutputInv /\ ReadInv

-----------------------------------------------------------------------------
LEMMA InitInv == Init => Inv
<1> SUFFICES ASSUME Init PROVE Inv
  OBVIOUS
<1> USE McpServerAssumption DEF Init
<1>1. pipe \in Seq(Requests) /\ stdout \in Seq(Writes) /\ DOMAIN stdout = {} /\ DOMAIN pipe = {}
  <2>1. <<>> \in Seq(Requests) /\ <<>> \in Seq(Writes)
    BY EmptySeq
  <2>2. DOMAIN <<>> = {}
    OBVIOUS
  <2>3. QED
    BY <2>1, <2>2
<1>2. Len(stdout) % 2 = 0
  BY EmptySeq
<1>3. Range(stdout) = {}
  BY <1>1 DEF Range
<1>4. TypeOK
  BY <1>1, <1>3 DEF TypeOK, Goroutine, Kinds
<1>5. OutputInv
  BY <1>1, <1>2, <1>4
     DEF OutputInv, Shape, Piped, MutexHeld, Unfinished, WrittenByDone, LinesAreWhole
<1>6. ReadInv
  BY <1>4 DEF ReadInv, StoredWhenHandled, Handled, KnownIsStored, ReadYourWrites
<1>7. QED
  BY <1>5, <1>6 DEF Inv

(* What one write does to stdout.                                          *)
LEMMA WriteAppends ==
  ASSUME stdout \in Seq(Writes), NEW c \in Writes, stdout' = Append(stdout, c)
  PROVE  /\ stdout' \in Seq(Writes)
         /\ Len(stdout) \in Nat /\ DOMAIN stdout = 1..Len(stdout)
         /\ Len(stdout') = Len(stdout) + 1
         /\ DOMAIN stdout' = 1..Len(stdout) + 1
         /\ \A i \in 1..Len(stdout) : stdout'[i] = stdout[i]
         /\ stdout'[Len(stdout) + 1] = c
         /\ Range(stdout') = Range(stdout) \cup {c}
<1>1. /\ Append(stdout, c) \in Seq(Writes)
      /\ Len(Append(stdout, c)) = Len(stdout) + 1
      /\ \A i \in 1..Len(stdout) : Append(stdout, c)[i] = stdout[i]
      /\ Append(stdout, c)[Len(stdout) + 1] = c
  BY AppendProperties
<1>2. /\ Len(stdout) \in Nat /\ DOMAIN stdout = 1..Len(stdout)
      /\ DOMAIN Append(stdout, c) = 1..Len(stdout) + 1
  BY <1>1, LenProperties
<1>3. Range(Append(stdout, c)) = Range(stdout) \cup {c}
  BY <1>1, <1>2 DEF Range
<1>4. QED
  BY <1>1, <1>2, <1>3

(* A step that moves no goroutine into or out of the writing and puts      *)
(* nothing on stdout keeps the lines as they are.                          *)
LEMMA NoWrite ==
  ASSUME OutputInv, Shape', UNCHANGED <<stdout, mutex>>,
         \A r \in Requests :
           \/ state'[r] = state[r]
           \/ /\ state[r] \notin {"writing", "written", "done"}
              /\ state'[r] \notin {"writing", "written"}
  PROVE  OutputInv'
<1>1. \A i \in DOMAIN stdout : stdout[i][1] \in Requests
  BY ElementOfSeq, LenProperties DEF OutputInv, Shape, Writes
<1>2. MutexHeld'
  BY DEF OutputInv, MutexHeld
<1>3. Unfinished'
  BY DEF OutputInv, Unfinished
<1>4. WrittenByDone'
  BY <1>1 DEF OutputInv, WrittenByDone
<1>5. LinesAreWhole'
  BY DEF OutputInv, LinesAreWhole
<1>6. QED
  BY <1>2, <1>3, <1>4, <1>5 DEF OutputInv

-----------------------------------------------------------------------------
(* Requests move from state to state.                                      *)
LEMMA SendShape == \A r \in Requests : Shape /\ Send(r) => Shape'
<1> SUFFICES ASSUME Shape, NEW r \in Requests, Send(r) PROVE Shape'
  OBVIOUS
<1>1. /\ pipe \in Seq(Requests) /\ Len(pipe) \in Nat /\ DOMAIN pipe = 1..Len(pipe)
      /\ \A i \in 1..Len(pipe) : pipe[i] \in Requests
  BY LenProperties, ElementOfSeq DEF Shape, Piped
<1>2. /\ pipe' \in Seq(Requests) /\ DOMAIN pipe' = 1..Len(pipe) + 1
      /\ \A i \in 1..Len(pipe) : pipe'[i] = pipe[i]
      /\ pipe'[Len(pipe) + 1] = r
  BY <1>1, AppendProperties, LenProperties DEF Send
<1>3. \A i \in 1..Len(pipe) : pipe[i] # r
  BY <1>1 DEF Shape, TypeOK, Send, Move
<1>4. Piped'
  BY <1>1, <1>2, <1>3 DEF Shape, Piped
<1>5. state' \in [Requests -> Goroutine]
  BY DEF Send, Move, Shape, TypeOK, Goroutine
<1>6. \A i \in DOMAIN pipe' : state'[pipe'[i]] = "sent"
  BY <1>1, <1>2, <1>3 DEF Shape, TypeOK, Send, Move
<1>7. known' \in [Requests -> SUBSET Requests]
  BY DEF Send, Shape, TypeOK
<1>8. TypeOK'
  BY <1>5, <1>6, <1>7 DEF Send, Shape, TypeOK
<1>9. QED
  BY <1>4, <1>8 DEF Shape, Send

LEMMA ReadLineShape == Shape /\ ReadLine => Shape'
<1> SUFFICES ASSUME Shape, ReadLine PROVE Shape'
  OBVIOUS
<1>1. /\ pipe \in Seq(Requests) /\ Len(pipe) \in Nat /\ DOMAIN pipe = 1..Len(pipe)
      /\ pipe # <<>>
      /\ \A i \in 1..Len(pipe) : pipe[i] \in Requests
  BY LenProperties, ElementOfSeq DEF Shape, Piped, ReadLine
<1>2. /\ Head(pipe) = pipe[1] /\ 1 \in DOMAIN pipe
      /\ pipe' \in Seq(Requests) /\ DOMAIN pipe' = 1..Len(pipe) - 1
      /\ \A i \in 1..Len(pipe) - 1 : pipe'[i] = pipe[i + 1]
  <2>1. Len(pipe) > 0
    BY <1>1, EmptySeq
  <2>2. Head(pipe) = pipe[1]
    BY <1>1
  <2>3. /\ pipe' \in Seq(Requests) /\ Len(pipe') = Len(pipe) - 1
        /\ \A i \in 1..Len(pipe') : pipe'[i] = pipe[i + 1]
    BY <1>1, HeadTailProperties DEF ReadLine
  <2>4. QED
    BY <1>1, <2>1, <2>2, <2>3, LenProperties
<1>3. \A i \in 1..Len(pipe) - 1 : i + 1 \in DOMAIN pipe /\ pipe'[i] # Head(pipe)
  <2>1. SUFFICES ASSUME NEW i \in 1..Len(pipe) - 1
                 PROVE  i + 1 \in DOMAIN pipe /\ pipe'[i] # Head(pipe)
    OBVIOUS
  <2>2. i + 1 \in DOMAIN pipe /\ i + 1 # 1
    BY <1>1
  <2>3. pipe[i + 1] # pipe[1]
    BY <1>2, <2>2 DEF Shape, Piped
  <2>4. QED
    BY <1>2, <2>2, <2>3
<1>4. Piped'
  <2>1. ASSUME NEW i \in DOMAIN pipe', NEW j \in DOMAIN pipe', pipe'[i] = pipe'[j]
        PROVE  i = j
    <3>1. i + 1 \in DOMAIN pipe /\ j + 1 \in DOMAIN pipe /\ pipe[i + 1] = pipe[j + 1]
      BY <1>1, <1>2, <2>1
    <3>2. i + 1 = j + 1
      BY <3>1 DEF Shape, Piped
    <3>3. QED
      BY <1>1, <1>2, <3>2
  <2>2. QED
    BY <1>2, <2>1 DEF Piped
<1>5. state' \in [Requests -> Goroutine]
  BY <1>1, <1>2 DEF ReadLine, Move, Shape, TypeOK, Goroutine
<1>6. \A i \in DOMAIN pipe' : state'[pipe'[i]] = "sent"
  BY <1>1, <1>2, <1>3 DEF Shape, TypeOK, ReadLine, Move
<1>7. TypeOK'
  BY <1>5, <1>6 DEF ReadLine, Shape, TypeOK
<1>8. QED
  BY <1>4, <1>7 DEF Shape, ReadLine

(* A goroutine that runs is not one whose line is still in the pipe.       *)
LEMMA MoveShape ==
  ASSUME Shape, NEW r \in Requests, NEW from \in Goroutine \ {"sent"},
         NEW to \in Goroutine, Move(r, from, to), UNCHANGED pipe
  PROVE  /\ Piped'
         /\ state' \in [Requests -> Goroutine]
         /\ \A i \in DOMAIN pipe' : state'[pipe'[i]] = "sent"
         /\ state'[r] = to
         /\ \A q \in Requests \ {r} : state'[q] = state[q]
<1>1. \A i \in DOMAIN pipe : pipe[i] \in Requests
  BY LenProperties, ElementOfSeq DEF Shape, Piped
<1>2. \A i \in DOMAIN pipe : pipe[i] # r
  BY <1>1 DEF Shape, TypeOK, Move
<1>3. QED
  BY <1>1, <1>2 DEF Shape, TypeOK, Piped, Move

LEMMA WorkShape == \A r \in Requests : Shape /\ Work(r) => Shape'
<1> SUFFICES ASSUME Shape, NEW r \in Requests, Work(r) PROVE Shape'
  OBVIOUS
<1> USE DEF Goroutine
<1>1. CASE HandleRequest(r)
  <2>1. /\ Piped' /\ state' \in [Requests -> Goroutine]
        /\ \A i \in DOMAIN pipe' : state'[pipe'[i]] = "sent"
    BY <1>1, MoveShape DEF HandleRequest
  <2>2. memories' \subseteq Requests /\ result' \in [Requests -> SUBSET Requests]
    BY <1>1 DEF HandleRequest, Shape, TypeOK
  <2>3. QED
    BY <1>1, <2>1, <2>2 DEF HandleRequest, Shape, TypeOK
<1>2. CASE Lock(r)
  <2>1. /\ Piped' /\ state' \in [Requests -> Goroutine]
        /\ \A i \in DOMAIN pipe' : state'[pipe'[i]] = "sent"
    BY <1>2, MoveShape DEF Lock
  <2>2. QED
    BY <1>2, <2>1 DEF Lock, Shape, TypeOK
<1>3. CASE WriteBody(r)
  <2>1. /\ Piped' /\ state' \in [Requests -> Goroutine]
        /\ \A i \in DOMAIN pipe' : state'[pipe'[i]] = "sent"
    BY <1>3, MoveShape DEF WriteBody
  <2>2. stdout' \in Seq(Writes) /\ Range(stdout') \subseteq Writes
    <3>1. <<r, "body">> \in Writes /\ stdout' = Append(stdout, <<r, "body">>)
      BY <1>3 DEF WriteBody, Writes
    <3>2. Range(stdout) \subseteq Writes
      BY DEF Shape, TypeOK, Writes
    <3>3. QED
      BY <3>1, <3>2, WriteAppends DEF Shape
  <2>3. QED
    BY <1>3, <2>1, <2>2 DEF WriteBody, Shape, TypeOK, Writes
<1>4. CASE WriteNewline(r)
  <2>1. /\ Piped' /\ state' \in [Requests -> Goroutine]
        /\ \A i \in DOMAIN pipe' : state'[pipe'[i]] = "sent"
    BY <1>4, MoveShape DEF WriteNewline
  <2>2. stdout' \in Seq(Writes) /\ Range(stdout') \subseteq Writes
    <3>1. <<r, "newline">> \in Writes /\ stdout' = Append(stdout, <<r, "newline">>)
      BY <1>4 DEF WriteNewline, Writes
    <3>2. Range(stdout) \subseteq Writes
      BY DEF Shape, TypeOK, Writes
    <3>3. QED
      BY <3>1, <3>2, WriteAppends DEF Shape
  <2>3. QED
    BY <1>4, <2>1, <2>2 DEF WriteNewline, Shape, TypeOK, Writes
<1>5. QED
  BY <1>1, <1>2, <1>3, <1>4 DEF Work

(* Steps that change none of the requests.                                 *)
Aside == EndInput \/ Exit \/ ReadEOF \/ Return

LEMMA AsideShape == Shape /\ (Aside \/ UNCHANGED vars) => Shape'
  BY DEF Shape, Piped, TypeOK, Aside, EndInput, Exit, ReadEOF, Return, Alive, vars

-----------------------------------------------------------------------------
(* The output.                                                             *)
LEMMA WriteBodyOutput ==
  ASSUME OutputInv, Shape', NEW r \in Requests, WriteBody(r)
  PROVE  OutputInv'
<1> DEFINE n == Len(stdout)
<1>1. /\ n \in Nat /\ DOMAIN stdout = 1..n
      /\ Len(stdout') = n + 1 /\ DOMAIN stdout' = 1..n + 1
      /\ \A i \in 1..n : stdout'[i] = stdout[i] /\ stdout[i] \in Writes
      /\ stdout'[n + 1] = <<r, "body">>
  BY WriteAppends, ElementOfSeq DEF WriteBody, OutputInv, Shape, Writes
<1>2. /\ state[r] = "writing" /\ state'[r] = "written" /\ mutex' = mutex
      /\ \A q \in Requests \ {r} : state'[q] = state[q]
  BY DEF WriteBody, Move, OutputInv, Shape, TypeOK
<1>3. \A q \in Requests \ {r} : state[q] \notin {"writing", "written"}
  BY <1>2 DEF OutputInv, MutexHeld
<1>4. n % 2 = 0
  BY <1>2, <1>3 DEF OutputInv, Unfinished
<1>5. \A i \in 1..n : stdout[i][1] \in Requests \ {r} /\ state[stdout[i][1]] = "done"
  BY <1>1, <1>2, <1>3 DEF OutputInv, WrittenByDone, Writes
<1>6. MutexHeld'
  BY <1>2 DEF OutputInv, MutexHeld
<1>7. Unfinished'
  BY <1>1, <1>2, <1>3, <1>4 DEF Unfinished
<1>8. WrittenByDone'
  BY <1>1, <1>2, <1>5 DEF WrittenByDone
<1>9. LinesAreWhole'
  <2>1. ASSUME NEW i \in DOMAIN stdout', i % 2 = 0
        PROVE  /\ stdout'[i - 1][2] = "body"
               /\ stdout'[i] = <<stdout'[i - 1][1], "newline">>
    <3>1. i \in 1..n /\ i - 1 \in 1..n
      BY <1>1, <1>4, <2>1
    <3>2. QED
      BY <1>1, <2>1, <3>1 DEF OutputInv, LinesAreWhole
  <2>2. ASSUME NEW i \in DOMAIN stdout', NEW j \in DOMAIN stdout', stdout'[i] = stdout'[j]
        PROVE  i = j
    BY <1>1, <1>5, <2>2 DEF OutputInv, LinesAreWhole
  <2>3. QED
    BY <2>1, <2>2 DEF LinesAreWhole
<1>10. QED
  BY <1>6, <1>7, <1>8, <1>9 DEF OutputInv

LEMMA WriteNewlineOutput ==
  ASSUME OutputInv, Shape', NEW r \in Requests, WriteNewline(r)
  PROVE  OutputInv'
<1> DEFINE n == Len(stdout)
<1>1. /\ n \in Nat /\ DOMAIN stdout = 1..n
      /\ Len(stdout') = n + 1 /\ DOMAIN stdout' = 1..n + 1
      /\ \A i \in 1..n : stdout'[i] = stdout[i] /\ stdout[i] \in Writes
      /\ stdout'[n + 1] = <<r, "newline">>
  BY WriteAppends, ElementOfSeq DEF WriteNewline, OutputInv, Shape, Writes
<1>2. /\ state[r] = "written" /\ state'[r] = "done" /\ mutex' = Nobody
      /\ \A q \in Requests \ {r} : state'[q] = state[q]
  BY DEF WriteNewline, Move, OutputInv, Shape, TypeOK
<1>3. \A q \in Requests \ {r} : state[q] \notin {"writing", "written"}
  BY <1>2 DEF OutputInv, MutexHeld
<1>4. n % 2 = 1 /\ n \in 1..n /\ stdout[n] = <<r, "body">>
  BY <1>1, <1>2 DEF OutputInv, Unfinished
<1>5. \A i \in 1..n : i # n =>
        stdout[i][1] \in Requests \ {r} /\ state[stdout[i][1]] = "done"
  BY <1>1, <1>2, <1>3 DEF OutputInv, WrittenByDone, Writes
<1>6. MutexHeld'
  BY <1>2, <1>3, McpServerAssumption DEF OutputInv, MutexHeld
<1>7. Unfinished'
  BY <1>1, <1>2, <1>3, <1>4 DEF Unfinished
<1>8. WrittenByDone'
  <2>1. ASSUME NEW i \in DOMAIN stdout' PROVE state'[stdout'[i][1]] = "done"
    <3>1. CASE i \in {n, n + 1}
      BY <1>1, <1>2, <1>4, <3>1
    <3>2. CASE i \notin {n, n + 1}
      <4>1. i \in 1..n /\ stdout'[i] = stdout[i]
        BY <1>1, <3>2
      <4>2. stdout[i][1] \in Requests \ {r} /\ state[stdout[i][1]] = "done"
        BY <1>5, <3>2, <4>1
      <4>3. QED
        BY <1>2, <4>1, <4>2
    <3>3. QED
      BY <3>1, <3>2
  <2>2. QED
    BY <2>1 DEF WrittenByDone
<1>9. LinesAreWhole'
  <2>1. ASSUME NEW i \in DOMAIN stdout', i % 2 = 0
        PROVE  /\ stdout'[i - 1][2] = "body"
               /\ stdout'[i] = <<stdout'[i - 1][1], "newline">>
    <3>1. CASE i = n + 1
      BY <1>1, <1>4, <3>1
    <3>2. CASE i # n + 1
      <4>1. i \in 1..n /\ i - 1 \in 1..n
        BY <1>1, <2>1, <3>2
      <4>2. QED
        BY <1>1, <2>1, <4>1 DEF OutputInv, LinesAreWhole
    <3>3. QED
      BY <3>1, <3>2
  <2>2. ASSUME NEW i \in DOMAIN stdout', NEW j \in DOMAIN stdout', stdout'[i] = stdout'[j]
        PROVE  i = j
    <3>1. \A k \in 1..n : stdout[k] # <<r, "newline">>
      BY <1>4, <1>5
    <3>2. CASE i = n + 1 \/ j = n + 1
      BY <1>1, <2>2, <3>1, <3>2
    <3>3. CASE i # n + 1 /\ j # n + 1
      BY <1>1, <2>2, <3>3 DEF OutputInv, LinesAreWhole
    <3>4. QED
      BY <3>2, <3>3
  <2>3. QED
    BY <2>1, <2>2 DEF LinesAreWhole
<1>10. QED
  BY <1>6, <1>7, <1>8, <1>9 DEF OutputInv

LEMMA StepOutput == OutputInv /\ [Next]_vars => OutputInv'
<1> SUFFICES ASSUME OutputInv, [Next]_vars PROVE OutputInv'
  OBVIOUS
<1>0. Shape
  BY DEF OutputInv
<1>1. ASSUME NEW r \in Requests, Send(r) PROVE OutputInv'
  BY <1>0, <1>1, SendShape, NoWrite DEF Send, Move, Shape, TypeOK
<1>2. ASSUME NEW r \in Requests, Work(r) PROVE OutputInv'
  <2>1. Shape'
    BY <1>0, <1>2, WorkShape
  <2>2. CASE HandleRequest(r)
    BY <1>0, <2>1, <2>2, NoWrite DEF HandleRequest, Move, Shape, TypeOK
  <2>3. CASE Lock(r)
    <3>1. /\ mutex = Nobody /\ mutex' = r /\ stdout' = stdout
          /\ state[r] = "ready" /\ state'[r] = "writing"
          /\ \A q \in Requests \ {r} : state'[q] = state[q]
      BY <1>0, <2>3 DEF Lock, Move, Shape, TypeOK
    <3>2. \A q \in Requests : state[q] \notin {"writing", "written"}
      BY <3>1, McpServerAssumption DEF OutputInv, MutexHeld
    <3>3. MutexHeld'
      BY <3>1, <3>2 DEF MutexHeld
    <3>4. Unfinished'
      BY <3>1, <3>2 DEF OutputInv, Unfinished
    <3>5. \A i \in DOMAIN stdout : stdout[i][1] \in Requests \ {r}
      BY <1>0, <3>1, <3>2, ElementOfSeq, LenProperties
         DEF OutputInv, WrittenByDone, Shape, Writes
    <3>6. WrittenByDone'
      BY <3>1, <3>5 DEF OutputInv, WrittenByDone
    <3>7. QED
      BY <2>1, <3>1, <3>3, <3>4, <3>6 DEF OutputInv, LinesAreWhole
  <2>4. CASE WriteBody(r)
    BY <2>1, <2>4, WriteBodyOutput
  <2>5. CASE WriteNewline(r)
    BY <2>1, <2>5, WriteNewlineOutput
  <2>6. QED
    BY <1>2, <2>2, <2>3, <2>4, <2>5 DEF Work
<1>3. CASE ReadLine
  BY <1>0, <1>3, ReadLineShape, NoWrite DEF ReadLine, Move, Shape, TypeOK
<1>4. CASE Aside \/ UNCHANGED vars
  <2>1. UNCHANGED <<stdout, mutex, state>>
    BY <1>4 DEF Aside, EndInput, Exit, ReadEOF, Return, vars
  <2>2. QED
    BY <1>0, <1>4, <2>1, AsideShape, NoWrite
<1>5. QED
  BY <1>1, <1>2, <1>3, <1>4 DEF Next, Serve, Aside

-----------------------------------------------------------------------------
(* What searches find.                                                     *)

(* Newlines on stdout are those of requests that have been handled.        *)
LEMMA AnsweredIsHandled ==
  ASSUME OutputInv, NEW s \in Requests, Answered(s)
  PROVE  Handled(s)
<1>1. PICK i \in DOMAIN stdout : stdout[i] = <<s, "newline">>
  BY DEF Answered, Range
<1>2. QED
  BY <1>1 DEF OutputInv, WrittenByDone, Handled

LEMMA StepRead == Inv /\ [Next]_vars => ReadInv'
<1> SUFFICES ASSUME Inv, [Next]_vars PROVE ReadInv'
  OBVIOUS
<1> USE DEF Handled
<1>0. Shape /\ OutputInv /\ ReadInv
  BY DEF Inv, OutputInv
<1>1. ASSUME NEW r \in Requests, Send(r) PROVE ReadInv'
  <2>1. /\ state[r] = "unsent" /\ state'[r] = "sent"
        /\ \A q \in Requests \ {r} : state'[q] = state[q] /\ known'[q] = known[q]
        /\ known'[r] = {s \in Requests : kind[s] = "store" /\ Answered(s)}
        /\ UNCHANGED <<kind, memories, result>>
    BY <1>0, <1>1 DEF Send, Move, Shape, TypeOK
  <2>2. StoredWhenHandled'
    BY <1>0, <2>1 DEF ReadInv, StoredWhenHandled
  <2>3. KnownIsStored'
    <3>1. \A s \in known'[r] : s \in memories
      BY <1>0, <2>1, AnsweredIsHandled DEF ReadInv, StoredWhenHandled
    <3>2. QED
      BY <1>0, <2>1, <3>1 DEF ReadInv, KnownIsStored
  <2>4. ReadYourWrites'
    BY <1>0, <2>1 DEF ReadInv, ReadYourWrites
  <2>5. QED
    BY <2>2, <2>3, <2>4 DEF ReadInv
<1>2. ASSUME NEW r \in Requests, HandleRequest(r) PROVE ReadInv'
  <2>1. /\ state[r] = "running"
        /\ \A q \in Requests \ {r} : state'[q] = state[q] /\ result'[q] = result[q]
        /\ kind[r] = "search" => result'[r] = memories
        /\ memories \subseteq memories'
        /\ kind[r] = "store" => r \in memories'
        /\ UNCHANGED <<kind, known>>
    BY <1>0, <1>2 DEF HandleRequest, Move, Shape, TypeOK
  <2>2. QED
    BY <1>0, <2>1 DEF ReadInv, StoredWhenHandled, KnownIsStored, ReadYourWrites
<1>3. ASSUME UNCHANGED <<kind, known, memories, result>>,
             \A q \in Requests : Handled(q)' => Handled(q)
      PROVE  ReadInv'
  BY <1>0, <1>3 DEF ReadInv, StoredWhenHandled, KnownIsStored, ReadYourWrites
<1>4. ASSUME NEW r \in Requests, Lock(r) \/ WriteBody(r) \/ WriteNewline(r) PROVE ReadInv'
  <2>1. \A q \in Requests : Handled(q)' => Handled(q)
    BY <1>0, <1>4 DEF Lock, WriteBody, WriteNewline, Move, Shape, TypeOK
  <2>2. UNCHANGED <<kind, known, memories, result>>
    BY <1>4 DEF Lock, WriteBody, WriteNewline
  <2>3. QED
    BY <1>3, <2>1, <2>2
<1>5. CASE ReadLine
  <2>1. \A q \in Requests : Handled(q)' => Handled(q)
    BY <1>0, <1>5 DEF ReadLine, Move, Shape, TypeOK
  <2>2. UNCHANGED <<kind, known, memories, result>>
    BY <1>5 DEF ReadLine
  <2>3. QED
    BY <1>3, <2>1, <2>2
<1>6. CASE Aside \/ UNCHANGED vars
  <2>1. UNCHANGED <<kind, known, memories, result, state>>
    BY <1>6 DEF Aside, EndInput, Exit, ReadEOF, Return, vars
  <2>2. QED
    BY <1>3, <2>1
<1>7. QED
  BY <1>1, <1>2, <1>4, <1>5, <1>6 DEF Next, Serve, Work, Aside

LEMMA InvHolds == Spec => []Inv
<1>1. Inv /\ [Next]_vars => Inv'
  BY StepOutput, StepRead DEF Inv
<1>2. QED
  BY InitInv, <1>1, PTL DEF Spec

(* For any number of requests, whatever order their goroutines finish in   *)
(* and wherever the process is stopped: two writes under the mutex put     *)
(* whole lines on stdout, one for each request.                            *)
THEOREM OutputIsWhole == Spec => []LinesAreWhole
<1>1. Inv => LinesAreWhole
  BY DEF Inv, OutputInv
<1>2. QED
  BY <1>1, InvHolds, PTL

(* A search that the client sent after it had the answers of some stores   *)
(* finds their memories, for any number of requests in flight.             *)
THEOREM SearchFindsAnswered == Spec => []ReadYourWrites
<1>1. Inv => ReadYourWrites
  BY DEF Inv, ReadInv
<1>2. QED
  BY <1>1, InvHolds, PTL

-----------------------------------------------------------------------------
(***************************************************************************)
(* Search: ORDER BY, WHERE and LIMIT.                                      *)
(***************************************************************************)
(* R is a strict total order on S.                                         *)
TotalOrder(R, S) ==
  /\ \A x \in S : <<x, x>> \notin R
  /\ \A x, y \in S : x # y => <<x, y>> \in R \/ <<y, x>> \in R
  /\ \A x, y, z \in S : <<x, y>> \in R /\ <<y, z>> \in R => <<x, z>> \in R

(* s has each member of S exactly once.                                    *)
Lists(s, S) ==
  /\ s \in Seq(S) /\ DOMAIN s = 1..Len(s)
  /\ Len(s) = Cardinality(S) /\ Cardinality(S) \in Nat
  /\ IsInjective(s) /\ Range(s) = S

(* ORDER BY: a member's place is one more than the number of those before  *)
(* it, so the places are 1..n, each taken once.                            *)
LEMMA OrderedLists ==
  ASSUME NEW S, IsFiniteSet(S), NEW R, TotalOrder(R, S)
  PROVE  /\ Lists(Ordered(S, R), S)
         /\ \A i, j \in DOMAIN Ordered(S, R) :
              <<Ordered(S, R)[i], Ordered(S, R)[j]>> \in R => i < j
<1> DEFINE n == Cardinality(S)
           Below(x) == {y \in S : <<y, x>> \in R}
           rank == [x \in S |-> Cardinality(Below(x)) + 1]
           s == Ordered(S, R)
<1>1. n \in Nat
  BY FS_CardinalityType
<1>2. \A x \in S : IsFiniteSet(Below(x)) /\ Cardinality(Below(x)) \in Nat
  <2>1. SUFFICES ASSUME NEW x \in S
                 PROVE  IsFiniteSet(Below(x)) /\ Cardinality(Below(x)) \in Nat
    OBVIOUS
  <2>2. Below(x) \in SUBSET S
    OBVIOUS
  <2>3. IsFiniteSet(Below(x))
    BY <2>2, FS_Subset
  <2>4. QED
    BY <2>3, FS_CardinalityType
<1>3. \A x \in S : Cardinality(Below(x)) < n
  <2>1. SUFFICES ASSUME NEW x \in S PROVE Cardinality(Below(x)) < n
    OBVIOUS
  <2>2. Below(x) \in SUBSET S /\ x \notin Below(x)
    BY DEF TotalOrder
  <2>3. Cardinality(Below(x)) <= n /\ Cardinality(Below(x)) # n
    <3>1. Below(x) # S
      BY <2>2
    <3> HIDE DEF Below
    <3>2. QED
      BY <2>2, <3>1, FS_Subset
  <2>4. Cardinality(Below(x)) \in Nat
    BY <1>2
  <2> HIDE DEF Below
  <2>5. QED
    BY <1>1, <2>3, <2>4
<1>4. \A x, y \in S : <<x, y>> \in R => Cardinality(Below(x)) < Cardinality(Below(y))
  <2>1. SUFFICES ASSUME NEW x \in S, NEW y \in S, <<x, y>> \in R
                 PROVE  Cardinality(Below(x)) < Cardinality(Below(y))
    OBVIOUS
  <2>2. Below(x) \in SUBSET Below(y) /\ x \in Below(y) /\ x \notin Below(x)
    BY <2>1 DEF TotalOrder
  <2>3. Cardinality(Below(x)) <= Cardinality(Below(y)) /\ Cardinality(Below(x)) # Cardinality(Below(y))
    <3>1. Below(x) # Below(y) /\ IsFiniteSet(Below(y))
      BY <1>2, <2>2
    <3> HIDE DEF Below
    <3>2. QED
      BY <2>2, <3>1, FS_Subset
  <2>4. Cardinality(Below(x)) \in Nat /\ Cardinality(Below(y)) \in Nat
    BY <1>2
  <2> HIDE DEF Below
  <2>5. QED
    BY <2>3, <2>4
<1>5. rank \in [S -> 1..n]
  <2>1. \A x \in S : Cardinality(Below(x)) + 1 \in 1..n
    <3> HIDE DEF Below
    <3>1. QED
      BY <1>1, <1>2, <1>3
  <2>2. QED
    BY <2>1
<1>6. \A x, y \in S : <<x, y>> \in R => rank[x] < rank[y]
  <2> HIDE DEF Below
  <2>1. QED
    BY <1>2, <1>4
<1>7. rank \in Injection(S, 1..n)
  <2>1. ASSUME NEW x \in S, NEW y \in S, rank[x] = rank[y] PROVE x = y
    <3>1. rank[x] \in Int /\ rank[y] \in Int
      BY <1>5
    <3> HIDE DEF rank
    <3>2. <<x, y>> \notin R /\ <<y, x>> \notin R
      <4>1. ~(rank[x] < rank[y]) /\ ~(rank[y] < rank[x])
        BY <2>1, <3>1
      <4>2. QED
        BY <1>6, <4>1
    <3>3. QED
      BY <3>2 DEF TotalOrder
  <2>2. DOMAIN rank = S
    OBVIOUS
  <2> HIDE DEF rank
  <2>3. IsInjective(rank)
    BY <2>1, <2>2 DEF IsInjective
  <2>4. QED
    BY <1>5, <2>3 DEF Injection
<1>8. rank \in Surjection(S, 1..n)
  <2>1. IsFiniteSet(1..n) /\ Cardinality(1..n) = n
    BY <1>1, FS_Interval
  <2> HIDE DEF rank
  <2>2. QED
    BY <1>7, <2>1, FS_Injection
<1>9. \A i \in 1..n : s[i] \in S /\ rank[s[i]] = i
  <2>1. SUFFICES ASSUME NEW i \in 1..n PROVE s[i] \in S /\ rank[s[i]] = i
    OBVIOUS
  <2>2. PICK x \in S : rank[x] = i
    BY <1>8 DEF Surjection
  <2>3. Cardinality(Below(x)) = i - 1
    <3> HIDE DEF Below
    <3>1. QED
      BY <1>2, <2>2
  <2>4. s[i] = CHOOSE y \in S : Cardinality(Below(y)) = i - 1
    BY DEF Ordered
  <2>5. s[i] \in S /\ Cardinality(Below(s[i])) = i - 1
    <3> HIDE DEF Below, s
    <3>1. QED
      BY <2>3, <2>4
  <2>6. QED
    <3> HIDE DEF Below, s
    <3>1. QED
      BY <1>2, <2>5
<1>10. s \in [1..n -> S]
  <2> DEFINE e(i) == CHOOSE x \in S : Cardinality(Below(x)) = i - 1
  <2>1. s = [i \in 1..n |-> e(i)]
    BY DEF Ordered
  <2>2. \A i \in 1..n : s[i] = e(i)
    BY <2>1
  <2> HIDE DEF e
  <2>3. \A i \in 1..n : e(i) \in S
    BY <1>9, <2>2
  <2>4. QED
    BY <2>1, <2>3
<1> HIDE DEF s, rank, Below
<1>11. s \in Seq(S) /\ Len(s) = n /\ DOMAIN s = 1..n
  <2>1. s \in Seq(S)
    BY <1>1, <1>10, SeqDef
  <2>2. QED
    BY <1>1, <1>10, <2>1, LenProperties
<1>12. IsInjective(s)
  BY <1>9, <1>11 DEF IsInjective
<1>13. Range(s) = S
  <2>1. ASSUME NEW x \in S PROVE x \in Range(s)
    <3>1. rank[x] \in 1..n
      BY <1>5
    <3>2. s[rank[x]] \in S /\ rank[s[rank[x]]] = rank[x]
      BY <1>9, <3>1
    <3>3. s[rank[x]] = x
      BY <1>7, <3>2 DEF Injection, IsInjective
    <3>4. QED
      BY <1>11, <3>1, <3>3 DEF Range
  <2>2. QED
    BY <1>9, <1>11, <2>1 DEF Range
<1>14. \A i, j \in DOMAIN s : <<s[i], s[j]>> \in R => i < j
  BY <1>6, <1>9, <1>11
<1>15. QED
  BY <1>1, <1>11, <1>12, <1>13, <1>14 DEF Lists, s

LEMMA AscendingLists ==
  ASSUME NEW S \in SUBSET Int, IsFiniteSet(S)
  PROVE  Lists(Ascending(S), S)
<1> DEFINE R == {r \in S \X S : r[1] < r[2]}
<1>1. \A x, y \in S : <<x, y>> \in R <=> x < y
  OBVIOUS
<1> HIDE DEF R
<1>2. TotalOrder(R, S)
  BY <1>1 DEF TotalOrder
<1>3. Lists(Ordered(S, R), S)
  BY <1>2, OrderedLists
<1>4. QED
  BY <1>3 DEF Ascending, R

LEMMA DescendingLists ==
  ASSUME NEW S \in SUBSET Int, IsFiniteSet(S)
  PROVE  Lists(Descending(S), S)
<1> DEFINE R == {r \in S \X S : r[1] > r[2]}
<1>1. \A x, y \in S : <<x, y>> \in R <=> x > y
  OBVIOUS
<1> HIDE DEF R
<1>2. TotalOrder(R, S)
  BY <1>1 DEF TotalOrder
<1>3. Lists(Ordered(S, R), S)
  BY <1>2, OrderedLists
<1>4. QED
  BY <1>3 DEF Descending, R

(* A sequence without repetition lists its range.                          *)
LEMMA InjectiveLists ==
  ASSUME NEW T, NEW s \in Seq(T), IsInjective(s)
  PROVE  Lists(s, Range(s)) /\ IsFiniteSet(Range(s)) /\ Range(s) \subseteq T
<1> DEFINE n == Len(s)
<1>1. n \in Nat /\ DOMAIN s = 1..n /\ s \in [1..n -> T]
  BY LenProperties
<1>2. Range(s) \subseteq T
  BY <1>1 DEF Range
<1>3. s \in [1..n -> Range(s)]
  BY <1>1 DEF Range
<1>4. s \in Bijection(1..n, Range(s))
  BY <1>1, <1>3 DEF Range, Bijection, Injection, Surjection
<1>5. ExistsBijection(1..n, Range(s))
  BY <1>4 DEF ExistsBijection
<1>6. IsFiniteSet(1..n) /\ Cardinality(1..n) = n
  BY <1>1, FS_Interval
<1>7. IsFiniteSet(Range(s)) /\ Cardinality(Range(s)) = n
  BY <1>5, <1>6, FS_Bijection
<1>8. s \in Seq(Range(s))
  BY SeqOfRange
<1>9. QED
  BY <1>1, <1>2, <1>7, <1>8 DEF Lists

(* WHERE keeps what is in S.                                               *)
LEMMA FilteredLists ==
  ASSUME NEW T, NEW s \in Seq(T), IsInjective(s), NEW S
  PROVE  /\ Filtered(s, S) \in Seq(T) /\ IsInjective(Filtered(s, S))
         /\ Range(Filtered(s, S)) = Range(s) \cap S
<1> DEFINE I == {i \in DOMAIN s : s[i] \in S}
           kept == Ascending(I)
           f == Filtered(s, S)
<1>1. Len(s) \in Nat /\ DOMAIN s = 1..Len(s) /\ \A i \in DOMAIN s : s[i] \in T
  BY LenProperties
<1>2. I \in SUBSET Int /\ IsFiniteSet(I)
  <2>1. IsFiniteSet(1..Len(s))
    BY <1>1, FS_Interval
  <2>2. I \in SUBSET (1..Len(s))
    BY <1>1
  <2> HIDE DEF I
  <2>3. IsFiniteSet(I)
    BY <2>1, <2>2, FS_Subset
  <2>4. QED
    BY <2>2, <2>3
<1>3. Lists(kept, I)
  <2> HIDE DEF I
  <2>1. QED
    BY <1>2, AscendingLists
<1>4. f = [k \in DOMAIN kept |-> s[kept[k]]]
  BY DEF Filtered
<1> HIDE DEF kept, f
<1>5. /\ DOMAIN kept = 1..Len(kept) /\ Len(kept) \in Nat
      /\ \A k \in DOMAIN kept : kept[k] \in DOMAIN s /\ s[kept[k]] \in S
      /\ \A i \in DOMAIN s : s[i] \in S => \E k \in DOMAIN kept : kept[k] = i
      /\ \A k, l \in DOMAIN kept : kept[k] = kept[l] => k = l
  <2>1. Range(kept) = I /\ IsInjective(kept) /\ DOMAIN kept = 1..Len(kept) /\ Len(kept) \in Nat
    BY <1>3 DEF Lists
  <2>2. \A k \in DOMAIN kept : kept[k] \in I
    BY <2>1 DEF Range
  <2>3. \A i \in I : \E k \in DOMAIN kept : kept[k] = i
    BY <2>1 DEF Range
  <2>4. QED
    BY <2>1, <2>2, <2>3 DEF IsInjective
<1>6. DOMAIN f = DOMAIN kept /\ \A k \in DOMAIN kept : f[k] = s[kept[k]]
  BY <1>4
<1>7. f \in Seq(T)
  <2>1. f \in [1..Len(kept) -> T]
    BY <1>1, <1>4, <1>5
  <2>2. QED
    BY <1>5, <2>1, SeqDef
<1>8. IsInjective(f)
  BY <1>5, <1>6 DEF IsInjective
<1>9. Range(f) = Range(s) \cap S
  <2>1. \A x \in Range(f) : x \in Range(s) /\ x \in S
    BY <1>5, <1>6 DEF Range
  <2>2. ASSUME NEW x \in Range(s), x \in S PROVE x \in Range(f)
    <3>1. PICK i \in DOMAIN s : s[i] = x
      BY DEF Range
    <3>2. PICK k \in DOMAIN kept : kept[k] = i
      BY <1>5, <2>2, <3>1
    <3>3. QED
      BY <1>6, <3>1, <3>2 DEF Range
  <2>3. QED
    BY <2>1, <2>2
<1>10. QED
  BY <1>7, <1>8, <1>9 DEF f

(* LIMIT cuts a sequence off.                                              *)
LEMMA FirstIsPrefix ==
  ASSUME NEW T, NEW s \in Seq(T), NEW n \in Nat
  PROVE  /\ First(n, s) \in Seq(T)
         /\ Len(First(n, s)) = IF n < Len(s) THEN n ELSE Len(s)
         /\ Len(s) \in Nat /\ DOMAIN s = 1..Len(s)
         /\ DOMAIN First(n, s) = 1..Len(First(n, s))
         /\ \A i \in DOMAIN First(n, s) : i \in DOMAIN s /\ First(n, s)[i] = s[i]
         /\ Range(First(n, s)) \subseteq Range(s)
         /\ Len(s) <= n => First(n, s) = s
         /\ IsInjective(s) => IsInjective(First(n, s))
<1> DEFINE m == Len(s)
           k == IF n < m THEN n ELSE m
           f == First(n, s)
<1>1. m \in Nat /\ DOMAIN s = 1..m
  BY LenProperties
<1>2. s \in [1..m -> T]
  BY LenProperties
<1>3. f = SubSeq(s, 1, k)
  BY DEF First
<1>4. SubSeq(s, 1, m) = s
  BY SubSeqFull
<1> HIDE DEF m, f
<1>5. k \in Nat /\ k <= m /\ k <= n /\ (m <= n => k = m)
  BY <1>1
<1> HIDE DEF k
<1>6. \A i \in 1..k : s[i] \in T
  BY <1>1, <1>2, <1>5
<1>7. /\ f \in Seq(T) /\ Len(f) = (IF 1 <= k THEN k - 1 + 1 ELSE 0)
      /\ \A i \in 1..(k - 1 + 1) : f[i] = s[1 + i - 1]
  <2>1. k \in Int /\ 1 \in Int
    BY <1>5
  <2>2. QED
    BY <1>3, <1>6, <2>1, SubSeqProperties
<1>8. Len(f) = k
  BY <1>5, <1>7
<1>9. DOMAIN f = 1..k
  BY <1>7, <1>8, LenProperties
<1>10. \A i \in 1..k : f[i] = s[i]
  <2>1. SUFFICES ASSUME NEW i \in 1..k PROVE f[i] = s[i]
    OBVIOUS
  <2>2. i \in 1..(k - 1 + 1) /\ 1 + i - 1 = i
    BY <1>5
  <2>3. f[i] = s[1 + i - 1]
    BY <1>7, <2>2
  <2>4. QED
    BY <2>2, <2>3
<1>11. \A i \in DOMAIN f : i \in DOMAIN s /\ f[i] = s[i]
  BY <1>1, <1>5, <1>9, <1>10
<1>12. Range(f) \subseteq Range(s)
  BY <1>11 DEF Range
<1>13. m <= n => f = s
  BY <1>3, <1>4, <1>5
<1>14. IsInjective(s) => IsInjective(f)
  BY <1>11 DEF IsInjective
<1>15. Len(f) = IF n < m THEN n ELSE m
  BY <1>8 DEF k
<1>16. DOMAIN f = 1..Len(f)
  BY <1>8, <1>9
<1>17. QED
  BY <1>1, <1>7, <1>11, <1>12, <1>13, <1>14, <1>15, <1>16 DEF f, m

(* An order of a finite set.                                               *)
LEMMA SetToSeqsLists ==
  ASSUME NEW S, IsFiniteSet(S), NEW s \in SetToSeqs(S)
  PROVE  Lists(s, S)
<1> DEFINE n == Cardinality(S)
<1>1. n \in Nat
  BY FS_CardinalityType
<1>2. s \in [1..n -> S] /\ \A i, j \in 1..n : i # j => s[i] # s[j]
  BY DEF SetToSeqs
<1> HIDE DEF n
<1>3. IsInjective(s)
  BY <1>2 DEF IsInjective
<1>4. s \in Seq(S) /\ Len(s) = n /\ DOMAIN s = 1..n
  <2>1. s \in Seq(S)
    BY <1>1, <1>2, SeqDef
  <2>2. QED
    BY <1>1, <1>2, <2>1, LenProperties
<1>5. s \in Surjection(1..n, S)
  <2>1. s \in Injection(1..n, S)
    BY <1>2, <1>3 DEF Injection
  <2>2. IsFiniteSet(1..n) /\ Cardinality(1..n) = n
    BY <1>1, FS_Interval
  <2>3. QED
    BY <2>1, <2>2, FS_Injection DEF n
<1>6. Range(s) = S
  BY <1>2, <1>4, <1>5 DEF Surjection, Range
<1>7. QED
  BY <1>1, <1>3, <1>4, <1>6 DEF Lists, n

-----------------------------------------------------------------------------
(***************************************************************************)
(* TraceDependencies. The recursive query computes what paths lead to;     *)
(* ordered by distance and cut off anywhere, every node keeps the one      *)
(* before it on a shortest path.                                           *)
(***************************************************************************)
(* A finite set of numbers has a least one.                                *)
LEMMA HasLeast ==
  ASSUME NEW S \in SUBSET Int, IsFiniteSet(S), S # {}
  PROVE  \E m \in S : \A x \in S : m <= x
<1> DEFINE R == {r \in S \X S : r[1] < r[2]}
           s == Ordered(S, R)
<1>1. \A x, y \in S : <<x, y>> \in R <=> x < y
  OBVIOUS
<1> HIDE DEF R
<1>2. TotalOrder(R, S)
  BY <1>1 DEF TotalOrder
<1>3. Lists(s, S) /\ \A i, j \in DOMAIN s : <<s[i], s[j]>> \in R => i < j
  BY <1>2, OrderedLists
<1> HIDE DEF s
<1>4. /\ DOMAIN s = 1..Len(s) /\ Len(s) \in Nat
      /\ \A i \in DOMAIN s : s[i] \in S
      /\ \A x \in S : \E i \in DOMAIN s : s[i] = x
  <2>1. DOMAIN s = 1..Len(s) /\ s \in Seq(S) /\ Range(s) = S
    BY <1>3 DEF Lists
  <2>2. Len(s) \in Nat
    BY <2>1, LenProperties
  <2>3. QED
    BY <2>1, <2>2 DEF Range
<1>5. 1 \in DOMAIN s
  <2>1. PICK x \in S : TRUE
    OBVIOUS
  <2>2. PICK i \in DOMAIN s : s[i] = x
    BY <1>4
  <2>3. QED
    BY <1>4, <2>2
<1>6. ASSUME NEW x \in S PROVE s[1] <= x
  <2>1. PICK i \in DOMAIN s : s[i] = x
    BY <1>4
  <2>2. ~(i < 1)
    BY <1>4
  <2>3. ~(<<x, s[1]>> \in R)
    BY <1>3, <1>5, <2>1, <2>2
  <2>4. ~(x < s[1]) /\ x \in Int /\ s[1] \in Int
    BY <1>1, <1>4, <1>5, <2>3
  <2>5. QED
    BY <2>4
<1>7. QED
  BY <1>4, <1>5, <1>6

LEMMA MinIsLeast ==
  ASSUME NEW S \in SUBSET Int, IsFiniteSet(S), S # {}
  PROVE  Min(S) \in S /\ \A x \in S : Min(S) <= x
<1>1. \E m \in S : \A x \in S : m <= x
  BY HasLeast
<1>2. QED
  BY <1>1 DEF Min

(* The nodes that a path of d edges leads to.                              *)
Reached(d, graph) ==
  {n \in Nodes : \E p \in [0..d -> Nodes] :
     /\ p[0] \in asked.roots /\ p[d] = n
     /\ \A i \in 0..d - 1 : Leads(p[i], p[i + 1], graph)}

LEMMA ReachedZero ==
  ASSUME asked.roots \subseteq Nodes, NEW graph
  PROVE  Reached(0, graph) = asked.roots
<1>1. \A n \in Reached(0, graph) : n \in asked.roots
  BY DEF Reached
<1>2. ASSUME NEW n \in asked.roots PROVE n \in Reached(0, graph)
  <2> DEFINE p == [i \in 0..0 |-> n]
  <2>1. p \in [0..0 -> Nodes] /\ p[0] = n
    OBVIOUS
  <2>2. \A i \in 0..0 - 1 : Leads(p[i], p[i + 1], graph)
    OBVIOUS
  <2> HIDE DEF p
  <2>3. QED
    BY <2>1, <2>2 DEF Reached
<1>3. QED
  BY <1>1, <1>2

LEMMA ReachedNext ==
  ASSUME NEW d \in Nat \ {0}, NEW graph
  PROVE  Reached(d, graph) =
           {b \in Nodes : \E a \in Reached(d - 1, graph) : Leads(a, b, graph)}
<1>1. ASSUME NEW b \in Reached(d, graph)
      PROVE  \E a \in Reached(d - 1, graph) : Leads(a, b, graph)
  <2>1. PICK p \in [0..d -> Nodes] :
           /\ p[0] \in asked.roots /\ p[d] = b
           /\ \A i \in 0..d - 1 : Leads(p[i], p[i + 1], graph)
    BY DEF Reached
  <2> DEFINE q == [i \in 0..d - 1 |-> p[i]]
  <2>2. q \in [0..d - 1 -> Nodes] /\ \A i \in 0..d - 1 : q[i] = p[i]
    BY <2>1
  <2> HIDE DEF q
  <2>3. d - 1 \in 0..d - 1 /\ 0 \in 0..d - 1
    OBVIOUS
  <2>4. \A i \in 0..d - 1 - 1 : Leads(q[i], q[i + 1], graph)
    <3>1. SUFFICES ASSUME NEW i \in 0..d - 1 - 1 PROVE Leads(q[i], q[i + 1], graph)
      OBVIOUS
    <3>2. i \in 0..d - 1 /\ i + 1 \in 0..d - 1
      OBVIOUS
    <3>3. q[i] = p[i] /\ q[i + 1] = p[i + 1]
      BY <2>2, <3>2
    <3>4. Leads(p[i], p[i + 1], graph)
      BY <2>1, <3>2
    <3>5. QED
      BY <3>3, <3>4, Zenon
  <2>5. q[d - 1] \in Nodes /\ q[0] \in asked.roots /\ q[d - 1] = p[d - 1]
    BY <2>1, <2>2, <2>3
  <2>6. q[d - 1] \in Reached(d - 1, graph)
    BY <2>2, <2>4, <2>5 DEF Reached
  <2>7. Leads(p[d - 1], p[d - 1 + 1], graph) /\ d - 1 + 1 = d
    BY <2>1, <2>3
  <2>8. Leads(q[d - 1], b, graph)
    BY <2>1, <2>5, <2>7
  <2>9. QED
    BY <2>6, <2>8
<1>2. ASSUME NEW b \in Nodes, NEW a \in Reached(d - 1, graph), Leads(a, b, graph)
      PROVE  b \in Reached(d, graph)
  <2>1. PICK q \in [0..d - 1 -> Nodes] :
           /\ q[0] \in asked.roots /\ q[d - 1] = a
           /\ \A i \in 0..d - 1 - 1 : Leads(q[i], q[i + 1], graph)
    BY DEF Reached
  <2> DEFINE p == [i \in 0..d |-> IF i = d THEN b ELSE q[i]]
  <2>2. p \in [0..d -> Nodes] /\ p[d] = b /\ \A i \in 0..d - 1 : p[i] = q[i]
    BY <2>1
  <2> HIDE DEF p
  <2>3. ASSUME NEW i \in 0..d - 1 PROVE Leads(p[i], p[i + 1], graph)
    <3>1. CASE i = d - 1
      <4>1. p[i] = a /\ p[i + 1] = b
        BY <2>1, <2>2, <3>1
      <4>2. QED
        BY <1>2, <4>1, Zenon
    <3>2. CASE i # d - 1
      <4>1. i \in 0..d - 1 - 1 /\ i + 1 \in 0..d - 1
        BY <3>2
      <4>2. p[i] = q[i] /\ p[i + 1] = q[i + 1]
        BY <2>2, <4>1
      <4>3. Leads(q[i], q[i + 1], graph)
        BY <2>1, <4>1
      <4>4. QED
        BY <4>2, <4>3, Zenon
    <3>3. QED
      BY <3>1, <3>2
  <2>4. p[0] \in asked.roots
    BY <2>1, <2>2
  <2>5. QED
    BY <2>2, <2>3, <2>4 DEF Reached
<1>3. \A b \in Reached(d, graph) : b \in Nodes
  BY DEF Reached
<1>4. QED
  BY <1>1, <1>2, <1>3

(* The equation of the recursive query.                                    *)
Follows(f) ==
  f = [d \in 0..asked.depth |->
         IF d = 0 THEN asked.roots
         ELSE {b \in Nodes : \E a \in f[d - 1] : Leads(a, b, edges)}]

(* What paths lead to fits the equation of the recursive query ...         *)
LEMMA ReachedFollows ==
  ASSUME asked.roots \subseteq Nodes, asked.depth \in Nat
  PROVE  Follows([d \in 0..asked.depth |-> Reached(d, edges)])
<1> DEFINE n == asked.depth
           f == [d \in 0..n |-> Reached(d, edges)]
           g == [d \in 0..n |->
                   IF d = 0 THEN asked.roots
                   ELSE {b \in Nodes : \E a \in f[d - 1] : Leads(a, b, edges)}]
<1>1. \A d \in 0..n : f[d] = Reached(d, edges)
  OBVIOUS
<1>2. ASSUME NEW d \in 0..n PROVE f[d] = g[d]
  <2>1. CASE d = 0
    BY <1>1, <2>1, ReachedZero
  <2>2. CASE d # 0
    <3>1. d \in Nat \ {0} /\ d - 1 \in 0..n
      BY <2>2
    <3>2. Reached(d, edges) =
            {b \in Nodes : \E a \in Reached(d - 1, edges) : Leads(a, b, edges)}
      BY <3>1, ReachedNext
    <3>3. f[d - 1] = Reached(d - 1, edges) /\ f[d] = Reached(d, edges)
      BY <1>1, <3>1
    <3>4. g[d] = {b \in Nodes : \E a \in f[d - 1] : Leads(a, b, edges)}
      BY <2>2
    <3> HIDE DEF f, g
    <3>5. QED
      BY <3>2, <3>3, <3>4
  <2>3. QED
    BY <2>1, <2>2
<1>3. f = g
  BY <1>2
<1>4. QED
  BY <1>3 DEF Follows

(* ... and nothing else does: of the depths at which another solution      *)
(* differs there would be a least one.                                     *)
LEMMA LevelIsReached ==
  ASSUME asked.roots \subseteq Nodes, asked.depth \in Nat
  PROVE  \A d \in 0..asked.depth : Level[d] = Reached(d, edges)
<1> DEFINE n == asked.depth
           f == [d \in 0..n |-> Reached(d, edges)]
<1>1. Follows(f)
  BY ReachedFollows
<1>2. Level = CHOOSE g : Follows(g)
  BY Zenon DEF Level, Follows
<1>3. Follows(Level)
  BY <1>1, <1>2, Zenon
<1>4. \A d \in 0..n : f[d] = Reached(d, edges)
  OBVIOUS
<1> HIDE DEF f
<1> DEFINE Off == {d \in 0..n : Level[d] # f[d]}
<1>5. ASSUME Off # {} PROVE FALSE
  <2>1. Off \in SUBSET Int /\ IsFiniteSet(Off)
    <3>1. IsFiniteSet(0..n) /\ Off \in SUBSET (0..n)
      BY FS_Interval
    <3> HIDE DEF Off
    <3>2. IsFiniteSet(Off)
      BY <3>1, FS_Subset
    <3>3. QED
      BY <3>1, <3>2
  <2>2. PICK d \in Off : \A e \in Off : d <= e
    <3> HIDE DEF Off
    <3>1. QED
      BY <1>5, <2>1, HasLeast
  <2>3. d \in 0..n /\ Level[d] # f[d]
    OBVIOUS
  <2>4. /\ Level[d] = IF d = 0 THEN asked.roots
                      ELSE {b \in Nodes : \E a \in Level[d - 1] : Leads(a, b, edges)}
        /\ f[d] = IF d = 0 THEN asked.roots
                  ELSE {b \in Nodes : \E a \in f[d - 1] : Leads(a, b, edges)}
    BY <1>1, <1>3, <2>3, Zenon DEF Follows
  <2>5. d # 0
    BY <2>3, <2>4
  <2>6. d - 1 \in 0..n /\ ~(d <= d - 1)
    BY <2>3, <2>5
  <2>7. Level[d - 1] = f[d - 1]
    BY <2>2, <2>6
  <2>8. QED
    BY <2>3, <2>4, <2>5, <2>7
<1>6. QED
  BY <1>4, <1>5

(* The nodes within the distance asked for.                                *)
Near(graph) == {n \in Nodes : \E k \in 0..asked.depth : n \in Reached(k, graph)}

AskedTyped == /\ asked.roots \subseteq Nodes
              /\ asked.depth \in Nat /\ asked.nodes \in Nat

(* The rows of the recursive query are the nodes near enough, and the      *)
(* least depth of a node is its distance.                                  *)
LEMMA RowsAreNear ==
  ASSUME AskedTyped
  PROVE  /\ {row[1] : row \in Rows} = Near(edges)
         /\ \A n \in Near(edges) :
              /\ Distance(n) \in 0..asked.depth
              /\ n \in Reached(Distance(n), edges)
              /\ \A k \in 0..asked.depth : n \in Reached(k, edges) => Distance(n) <= k
<1> DEFINE D == 0..asked.depth
<1>1. \A d \in D : Level[d] = Reached(d, edges)
  BY LevelIsReached DEF AskedTyped
<1>2. \A d \in D : Reached(d, edges) \subseteq Nodes
  BY DEF Reached
<1>3. ASSUME NEW r PROVE r \in Rows <=> \E d \in D : \E n \in Reached(d, edges) : r = <<n, d>>
  BY <1>1 DEF Rows
<1>4. {row[1] : row \in Rows} = Near(edges)
  <2>1. ASSUME NEW r \in Rows PROVE r[1] \in Near(edges)
    BY <1>2, <1>3 DEF Near
  <2>2. ASSUME NEW n \in Near(edges) PROVE \E r \in Rows : r[1] = n
    <3>1. PICK d \in D : n \in Reached(d, edges)
      BY DEF Near
    <3>2. <<n, d>> \in Rows
      BY <1>3, <3>1
    <3>3. QED
      BY <3>2
  <2>3. QED
    BY <2>1, <2>2
<1>5. ASSUME NEW n \in Near(edges)
      PROVE  /\ Distance(n) \in D
             /\ n \in Reached(Distance(n), edges)
             /\ \A k \in D : n \in Reached(k, edges) => Distance(n) <= k
  <2> DEFINE S == {k \in D : n \in Reached(k, edges)}
  <2>1. {row[2] : row \in {r \in Rows : r[1] = n}} = S
    <3>1. ASSUME NEW r \in Rows, r[1] = n PROVE r[2] \in S
      BY <1>3, <3>1
    <3>2. ASSUME NEW k \in S PROVE \E r \in Rows : r[1] = n /\ r[2] = k
      <4>1. <<n, k>> \in Rows
        BY <1>3
      <4>2. QED
        BY <4>1
    <3>3. QED
      BY <3>1, <3>2
  <2>2. S \in SUBSET Int /\ IsFiniteSet(S) /\ S # {}
    <3>1. IsFiniteSet(D) /\ D \subseteq Int
      BY FS_Interval DEF AskedTyped
    <3>2. S \in SUBSET D /\ S # {}
      BY DEF Near
    <3> HIDE DEF S, D
    <3>3. IsFiniteSet(S)
      BY <3>1, <3>2, FS_Subset
    <3>4. QED
      BY <3>1, <3>2, <3>3
  <2>3. Distance(n) = Min(S)
    BY <2>1 DEF Distance
  <2>4. Min(S) \in S /\ \A k \in S : Min(S) <= k
    <3> HIDE DEF S
    <3>1. QED
      BY <2>2, MinIsLeast
  <2>5. QED
    BY <2>3, <2>4
<1>6. QED
  BY <1>4, <1>5

(* The order of the answer: a node after every nearer one.                 *)
LEMMA ByDistanceLists ==
  ASSUME AskedTyped
  PROVE  /\ Lists(ByDistance, Near(edges))
         /\ \A i, j \in DOMAIN ByDistance :
              Distance(ByDistance[i]) < Distance(ByDistance[j]) => i < j
<1> DEFINE S == {row[1] : row \in Rows}
           R == {r \in S \X S : Nearer(r[1], r[2])}
<1>1. S = Near(edges)
  BY RowsAreNear
<1>2. \A x, y \in S : <<x, y>> \in R <=> Nearer(x, y)
  OBVIOUS
<1>3. ByDistance = Ordered(S, R)
  BY DEF ByDistance
<1> HIDE DEF S, R
<1>4. IsFiniteSet(S) /\ S \subseteq Int
  <2>1. S \in SUBSET Nodes
    BY <1>1 DEF Near
  <2>2. IsFiniteSet(S)
    BY <2>1, TraceAssumption, FS_Subset
  <2>3. QED
    BY <2>1, <2>2, TraceAssumption
<1>5. \A x \in S : Distance(x) \in Int
  <2>1. \A x \in S : Distance(x) \in 0..asked.depth
    BY <1>1, RowsAreNear
  <2>2. QED
    BY <2>1
<1>6. TotalOrder(R, S)
  <2>1. \A x \in S : ~Nearer(x, x)
    BY <1>4, <1>5 DEF Nearer
  <2>2. \A x, y \in S : x # y => Nearer(x, y) \/ Nearer(y, x)
    BY <1>4, <1>5 DEF Nearer
  <2>3. \A x, y, z \in S : Nearer(x, y) /\ Nearer(y, z) => Nearer(x, z)
    BY <1>4, <1>5 DEF Nearer
  <2>4. QED
    BY <1>2, <2>1, <2>2, <2>3 DEF TotalOrder
<1> DEFINE s == Ordered(S, R)
<1>7. Lists(s, S) /\ \A i, j \in DOMAIN s : <<s[i], s[j]>> \in R => i < j
  BY <1>4, <1>6, OrderedLists
<1> HIDE DEF s
<1>8. \A i \in DOMAIN s : s[i] \in S
  BY <1>7 DEF Lists, Range
<1>9. ASSUME NEW i \in DOMAIN s, NEW j \in DOMAIN s, Distance(s[i]) < Distance(s[j])
      PROVE  i < j
  <2>1. Nearer(s[i], s[j])
    BY <1>9 DEF Nearer
  <2>2. <<s[i], s[j]>> \in R
    BY <1>2, <1>8, <2>1
  <2>3. QED
    BY <1>7, <2>2
<1>10. QED
  BY <1>1, <1>3, <1>7, <1>9 DEF s

(* The nodes selected hang together, over the edges the query saw.         *)
Linked(s, graph) ==
  \A i \in DOMAIN s :
    s[i] \in asked.roots \/ \E j \in 1..i - 1 : Leads(s[j], s[i], graph)

(* A node that is in the cut has its predecessor on a shortest path before *)
(* it.                                                                     *)
LEMMA CutIsLinked ==
  ASSUME AskedTyped
  PROVE  /\ First(asked.nodes, ByDistance) \in Seq(Nodes)
         /\ Linked(First(asked.nodes, ByDistance), edges)
         /\ ~(Len(ByDistance) > asked.nodes) =>
              Range(First(asked.nodes, ByDistance)) = Near(edges)
<1> DEFINE b == ByDistance
           s == First(asked.nodes, b)
<1>1. /\ Lists(b, Near(edges))
      /\ \A i, j \in DOMAIN b : Distance(b[i]) < Distance(b[j]) => i < j
  BY ByDistanceLists
<1> HIDE DEF b
<1>2. b \in Seq(Near(edges)) /\ Range(b) = Near(edges)
  BY <1>1 DEF Lists
<1>3. /\ s \in Seq(Near(edges)) /\ Len(b) \in Nat /\ DOMAIN b = 1..Len(b)
      /\ DOMAIN s = 1..Len(s)
      /\ \A i \in DOMAIN s : i \in DOMAIN b /\ s[i] = b[i]
      /\ Len(b) <= asked.nodes => s = b
  BY <1>2, FirstIsPrefix DEF AskedTyped
<1>4. Len(s) \in Nat
  BY <1>3, LenProperties
<1> HIDE DEF s
<1>5. s \in Seq(Nodes)
  <2>1. Near(edges) \subseteq Nodes
    BY DEF Near
  <2>2. QED
    BY <1>3, <2>1, SeqMonotonic
<1>6. ~(Len(b) > asked.nodes) => Range(s) = Near(edges)
  BY <1>2, <1>3 DEF AskedTyped
<1>7. Linked(s, edges)
  <2>1. SUFFICES ASSUME NEW i \in DOMAIN s, s[i] \notin asked.roots
                 PROVE  \E j \in 1..i - 1 : Leads(s[j], s[i], edges)
    BY DEF Linked
  <2> DEFINE n == b[i]
             d == Distance(n)
  <2>2. i \in DOMAIN b /\ s[i] = n /\ n \in Near(edges)
    BY <1>2, <1>3 DEF Range
  <2> HIDE DEF n
  <2>3. d \in 0..asked.depth /\ n \in Reached(d, edges)
    BY <2>2, RowsAreNear
  <2> HIDE DEF d
  <2>4. d # 0
    BY <2>1, <2>2, <2>3, ReachedZero DEF AskedTyped
  <2>5. d \in Nat \ {0} /\ d - 1 \in 0..asked.depth
    BY <2>3, <2>4 DEF AskedTyped
  <2>6. PICK a \in Reached(d - 1, edges) : Leads(a, n, edges)
    BY <2>3, <2>5, ReachedNext
  <2>7. a \in Near(edges)
    BY <2>5, <2>6 DEF Near, Reached
  <2>8. Distance(a) \in Int /\ Distance(a) <= d - 1
    BY <2>5, <2>6, <2>7, RowsAreNear
  <2>9. Distance(a) < Distance(n)
    BY <2>5, <2>8 DEF d
  <2>10. PICK j \in DOMAIN b : b[j] = a
    BY <1>2, <2>7 DEF Range
  <2>11. j < i
    BY <1>1, <2>2, <2>9, <2>10 DEF n
  <2>12. j \in DOMAIN s /\ j \in 1..i - 1
    BY <1>3, <1>4, <2>2, <2>11
  <2>13. s[j] = a
    BY <1>3, <2>10, <2>12
  <2>14. Leads(s[j], s[i], edges)
    BY <2>2, <2>6, <2>13
  <2>15. QED
    BY <2>12, <2>14
<1>8. QED
  BY <1>5, <1>6, <1>7 DEF s, b

(* From the first query on: the nodes hang together over edges that are    *)
(* still there, so that the second query finds those edges.                *)
TraceInv ==
  /\ tpc \in {"nodes", "edges", "done"}
  /\ search # "trace" => tpc = "nodes"
  /\ search = "trace" => AskedTyped
  /\ tpc # "nodes" =>
       /\ selected \in Seq(Nodes) /\ before \subseteq edges
       /\ Linked(selected, before)
       /\ ~truncated => Range(selected) = Near(before)
  /\ tpc = "done" => Linked(selected, traced)

LEMMA TraceInitInv == SearchInit => TraceInv
<1> SUFFICES ASSUME SearchInit PROVE TraceInv
  OBVIOUS
<1>1. tpc = "nodes"
  BY DEF SearchInit, TraceInit
<1>2. ASSUME search = "trace" PROVE AskedTyped
  <2>1. asked \in TraceInputs
    BY <1>2 DEF SearchInit, TraceInit
  <2>2. asked.roots \in Roots /\ asked.depth \in Depths /\ asked.nodes \in NodeCaps
    BY <2>1 DEF TraceInputs
  <2>3. QED
    BY <2>2, TraceAssumption DEF AskedTyped
<1>3. QED
  BY <1>1, <1>2 DEF TraceInv

(* What is said of an answer depends on the question and the answer only.  *)
LEMMA LeadsSame ==
  ASSUME asked' = asked, NEW a, NEW b, NEW graph
  PROVE  Leads(a, b, graph)' <=> Leads(a, b, graph)
BY DEF Leads

LEMMA NearBefore ==
  ASSUME asked' = asked, NEW graph, before' = graph
  PROVE  Near(before)' = Near(graph)
<1>1. ASSUME NEW d PROVE Reached(d, before)' = Reached(d, graph)
  BY DEF Reached, Leads
<1>2. Near(before)' = {n \in Nodes : \E k \in 0..asked.depth : n \in Reached(k, before)'}
  BY DEF Near
<1>3. QED
  BY <1>1, <1>2 DEF Near

LEMMA LinkedSame ==
  ASSUME asked' = asked, NEW s, NEW graph
  PROVE  Linked(s, graph)' <=> Linked(s, graph)
BY LeadsSame DEF Linked

LEMMA TraceStep == TraceInv /\ [SearchNext]_searchVars => TraceInv'
<1> SUFFICES ASSUME TraceInv, [SearchNext]_searchVars PROVE TraceInv'
  OBVIOUS
<1>1. asked' = asked /\ search' = search
  BY DEF SearchNext, Trace, TraceNodes, TraceEdges, searchVars, traceVars
<1>2. AskedTyped => AskedTyped'
  BY <1>1 DEF AskedTyped
<1>3. ASSUME search = "trace", TraceNodes, UNCHANGED tables PROVE TraceInv'
  <2>1. AskedTyped
    BY <1>3 DEF TraceInv
  <2>2. /\ selected' = First(asked.nodes, ByDistance) /\ before' = edges /\ edges' = edges
        /\ truncated' = (Len(ByDistance) > asked.nodes)
        /\ tpc' = IF selected' = <<>> THEN "done" ELSE "edges"
        /\ traced' = traced
    BY <1>3 DEF TraceNodes, tables
  <2>3. PICK s, e : s = First(asked.nodes, ByDistance) /\ e = edges
    OBVIOUS
  <2>4. s \in Seq(Nodes) /\ Linked(s, e) /\ (~truncated' => Range(s) = Near(e))
    BY <2>1, <2>2, <2>3, CutIsLinked, Zenon
  <2>5. Linked(s, e)'
    BY <1>1, <2>4, LinkedSame, Zenon
  <2>6. selected' = s /\ before' = e /\ edges' = e
    BY <2>2, <2>3
  <2>7. Linked(selected, before)'
    BY <2>5, <2>6 DEF Linked, Leads
  <2>8. (~truncated => Range(selected) = Near(before))'
    BY <1>1, <2>4, <2>6, NearBefore
  <2>9. selected' \in Seq(Nodes) /\ before' \subseteq edges'
    BY <2>4, <2>6
  <2>10. tpc' \in {"edges", "done"} /\ (tpc' = "done" => selected' = <<>>)
    BY <2>2
  <2>11. tpc' = "done" => Linked(selected, traced)'
    <3>1. DOMAIN <<>> = {}
      OBVIOUS
    <3>2. QED
      BY <2>10, <3>1 DEF Linked
  <2>12. QED
    BY <1>1, <1>2, <1>3, <2>1, <2>7, <2>8, <2>9, <2>10, <2>11 DEF TraceInv
<1>4. ASSUME search = "trace", TraceEdges, UNCHANGED tables PROVE TraceInv'
  <2>1. /\ tpc = "edges" /\ tpc' = "done" /\ UNCHANGED <<asked, selected, truncated, before, edges>>
        /\ traced' = {x \in edges : x[1] \in Range(selected) /\ x[2] \in Range(selected)}
    BY <1>4 DEF TraceEdges, tables
  <2>2. /\ AskedTyped /\ selected \in Seq(Nodes) /\ before \subseteq edges
        /\ Linked(selected, before) /\ (~truncated => Range(selected) = Near(before))
    BY <1>4, <2>1 DEF TraceInv
  <2>3. PICK s, b, t : s = selected /\ b = before /\ t = traced'
    OBVIOUS
  <2>4. Linked(s, t)
    <3>1. SUFFICES ASSUME NEW i \in DOMAIN s, NEW j \in 1..i - 1, Leads(s[j], s[i], b)
                   PROVE  Leads(s[j], s[i], t)
      BY <2>2, <2>3 DEF Linked
    <3>2. DOMAIN s = 1..Len(s) /\ Len(s) \in Nat
      BY <2>2, <2>3, LenProperties
    <3>3. j \in DOMAIN s
      BY <3>2
    <3>4. s[j] \in Range(s) /\ s[i] \in Range(s)
      BY <3>3 DEF Range
    <3>5. \A x \in b : x[1] \in Range(s) /\ x[2] \in Range(s) => x \in t
      BY <2>1, <2>2, <2>3
    <3>6. QED
      BY <3>1, <3>4, <3>5 DEF Leads
  <2>5. Linked(s, t)' /\ Linked(s, b)'
    BY <1>1, <2>2, <2>3, <2>4, LinkedSame, Zenon
  <2>6. selected' = s /\ before' = b /\ traced' = t
    BY <2>1, <2>3
  <2>7. Linked(selected, before)' /\ Linked(selected, traced)'
    BY <2>5, <2>6 DEF Linked, Leads
  <2>8. (~truncated => Range(selected) = Near(before))'
    BY <1>1, <2>1, <2>2, <2>3, <2>6, NearBefore
  <2>9. selected' \in Seq(Nodes) /\ before' \subseteq edges'
    BY <2>1, <2>2
  <2>10. QED
    BY <1>1, <1>2, <1>4, <2>1, <2>2, <2>7, <2>8, <2>9 DEF TraceInv
<1>5. ASSUME UNCHANGED traceVars, edges \subseteq edges' PROVE TraceInv'
  <2>1. UNCHANGED <<asked, selected, truncated, traced, before, tpc>>
    BY <1>5 DEF traceVars
  <2>2. PICK s, b, t : s = selected /\ b = before /\ t = traced
    OBVIOUS
  <2>3. selected' = s /\ before' = b /\ traced' = t
    BY <2>1, <2>2
  <2>4. CASE tpc = "nodes"
    BY <1>1, <1>2, <2>1, <2>4 DEF TraceInv
  <2>5. CASE tpc # "nodes"
    <3>1. /\ selected \in Seq(Nodes) /\ before \subseteq edges
          /\ Linked(s, b) /\ (~truncated => Range(s) = Near(b))
          /\ tpc = "done" => Linked(s, t)
      BY <2>2, <2>5 DEF TraceInv
    <3>2. Linked(s, b)' /\ (tpc = "done" => Linked(s, t)')
      BY <2>1, <3>1, LinkedSame, Zenon
    <3>3. Linked(selected, before)' /\ (tpc = "done" => Linked(selected, traced)')
      BY <2>3, <3>2 DEF Linked, Leads
    <3>4. (~truncated => Range(selected) = Near(before))'
      BY <1>1, <2>1, <2>3, <3>1, NearBefore
    <3>5. QED
      BY <1>1, <1>2, <1>5, <2>1, <3>1, <3>3, <3>4 DEF TraceInv
  <2>6. QED
    BY <2>4, <2>5
<1>6. CASE search = "trace" /\ Trace /\ UNCHANGED tables
  BY <1>3, <1>4, <1>6 DEF Trace
<1>7. CASE UNCHANGED traceVars /\ (StoreMemory \/ EmbedChunk \/ AddEdge \/ UNCHANGED tables)
  <2>1. edges \subseteq edges'
    BY <1>7 DEF StoreMemory, EmbedChunk, AddEdge, tables
  <2>2. QED
    BY <1>5, <1>7, <2>1
<1>8. QED
  BY <1>6, <1>7 DEF SearchNext, searchVars

(* For any graph, names, direction, depth and cap, and edges added at any  *)
(* time: every node TraceDependencies answers with is reached from one     *)
(* that bears the name, over edges and nodes of the answer.                *)
THEOREM AnswerHangsTogether == SearchSpec => []TraceConnected
<1>1. TraceInv => TraceConnected
  BY DEF TraceInv, TraceConnected, Linked
<1>2. QED
  BY <1>1, TraceInitInv, TraceStep, PTL DEF SearchSpec

(* An answer that max_nodes did not cut off has exactly the nodes to which *)
(* a path of at most max_depth edges led when the first query ran.         *)
THEOREM AnswerIsExact == SearchSpec => []TraceExact
<1>1. TraceInv => TraceExact
  <2>1. SUFFICES ASSUME TraceInv, tpc = "done", ~truncated PROVE TraceExact
    BY DEF TraceExact
  <2>2. Range(selected) = Near(before)
    BY <2>1 DEF TraceInv
  <2>3. QED
    BY <2>2 DEF TraceExact, Near, Reached
<1>2. QED
  BY <1>1, TraceInitInv, TraceStep, PTL DEF SearchSpec

-----------------------------------------------------------------------------
(***************************************************************************)
(* FuzzySearch. One query reads all statuses, in which a memory and its    *)
(* stored replacement agree; and only the first of the newest memories has *)
(* the full score.                                                         *)
(***************************************************************************)
(* Ids are positive, and there are finitely many.                          *)
LEMMA Ids ==
  /\ Memories \subseteq Nat \ {0} /\ IsFiniteSet(Memories)
  /\ Chunks \subseteq Nat \ {0} /\ IsFiniteSet(Chunks)
  /\ \A c \in Chunks : Owner[c] \in Memories
  /\ \A m \in Memories : Replaces[m] \in Nat
<1>1. Len(Project) \in Nat /\ DOMAIN Project = 1..Len(Project)
  BY SearchTablesAssumption, LenProperties
<1>2. Len(Owner) \in Nat /\ DOMAIN Owner = 1..Len(Owner)
      /\ \A c \in DOMAIN Owner : Owner[c] \in DOMAIN Project
  BY SearchTablesAssumption, LenProperties
<1>3. IsFiniteSet(1..Len(Project)) /\ IsFiniteSet(1..Len(Owner))
  BY <1>1, <1>2, FS_Interval
<1>4. \A m \in DOMAIN Project : Replaces[m] \in Nat
  <2>1. \A m \in DOMAIN Project : m \in Nat /\ m > 0 /\ Replaces[m] \in 0..m - 1
    BY <1>1, SearchTablesAssumption
  <2>2. QED
    BY <2>1
<1>5. QED
  BY <1>1, <1>2, <1>3, <1>4 DEF Memories, Chunks

(* What the tables hold together: the superseded memories are those a      *)
(* stored one replaces, and vectors belong to stored memories.             *)
TablesInv ==
  /\ stored \subseteq Memories
  /\ superseded = {Replaces[m] : m \in stored} \ {0}
  /\ vectors \subseteq Chunks /\ \A c \in vectors : Owner[c] \in stored

LEMMA TablesInitInv == SearchInit => TablesInv
<1> SUFFICES ASSUME SearchInit PROVE TablesInv
  OBVIOUS
<1>1. stored \subseteq Memories
  <2>1. PICK n \in {0} \cup Memories : stored = 1..n
    BY DEF SearchInit
  <2>2. Len(Project) \in Nat /\ Memories = 1..Len(Project)
    BY SearchTablesAssumption, LenProperties DEF Memories
  <2>3. QED
    BY <2>1, <2>2
<1>2. vectors \subseteq Visible(AnyProject)
  BY DEF SearchInit
<1>3. QED
  BY <1>1, <1>2 DEF SearchInit, TablesInv, Visible

LEMMA TablesStep == TablesInv /\ [SearchNext]_searchVars => TablesInv' /\ stored \subseteq stored'
<1> SUFFICES ASSUME TablesInv, [SearchNext]_searchVars PROVE TablesInv' /\ stored \subseteq stored'
  OBVIOUS
<1>1. CASE StoreMemory
  <2>1. PICK m \in Memories :
          /\ stored' = stored \cup {m}
          /\ superseded' = superseded \cup ({Replaces[m]} \ {0})
          /\ UNCHANGED vectors
    BY <1>1 DEF StoreMemory
  <2>2. superseded' = {Replaces[k] : k \in stored'} \ {0}
    BY <2>1 DEF TablesInv
  <2>3. QED
    BY <2>1, <2>2 DEF TablesInv
<1>2. CASE EmbedChunk
  BY <1>2 DEF EmbedChunk, TablesInv
<1>3. CASE AddEdge
  BY <1>3 DEF AddEdge, TablesInv
<1>4. CASE UNCHANGED tables
  BY <1>4 DEF tables, TablesInv
<1>5. QED
  BY <1>1, <1>2, <1>3, <1>4 DEF SearchNext, searchVars

-----------------------------------------------------------------------------
Requested ==
  /\ request.limit \in Nat \ {0} /\ request.recency \in BOOLEAN
  /\ byRank \in Seq(Chunks) /\ IsInjective(byRank)
  /\ byDistance \in Seq(Chunks) /\ IsInjective(byDistance)

(* What the queries have returned so far: chunks of stored memories.       *)
Gathered ==
  /\ lexical \in Seq(Chunks) /\ vector \in Seq(Chunks)
  /\ \A c \in Range(lexical) \cup Range(vector) : Owner[c] \in stored

FuzzyBase ==
  /\ fpc \in {"lexical", "embed", "vector", "lookup", "recency", "coverage", "done"}
  /\ search # "fuzzy" => fpc = "lexical"
  /\ search = "fuzzy" => Requested
  /\ Gathered
  /\ DOMAIN found \subseteq Memories
  /\ fpc \notin {"coverage", "done"} => candidates = <<>>
  /\ fpc # "done" => results = <<>>

LEMMA FuzzyInitBase == SearchInit => FuzzyBase
<1> SUFFICES ASSUME SearchInit PROVE FuzzyBase
  OBVIOUS
<1>1. fpc = "lexical" /\ lexical = <<>> /\ vector = <<>> /\ found = <<>> /\ candidates = <<>> /\ results = <<>>
  BY DEF SearchInit, FuzzyInit, FuzzyBlank
<1>2. ASSUME search = "fuzzy" PROVE Requested
  <2>1. PICK i \in FuzzyInputs : request = i[1] /\ byRank = i[2] /\ byDistance = i[3]
    BY <1>2 DEF SearchInit, FuzzyInit
  <2>2. /\ request \in [limit : Limits, project : Projects, recency : BOOLEAN]
        /\ byRank \in LexicalOrders /\ byDistance \in NearestOrders
    BY <2>1 DEF FuzzyInputs
  <2>3. QED
    BY <2>2, FuzzySearchAssumption DEF Requested
<1>3. <<>> \in Seq(Chunks) /\ Range(<<>>) = {} /\ DOMAIN <<>> = {}
  BY EmptySeq DEF Range
<1>4. Gathered
  BY <1>1, <1>3 DEF Gathered
<1>5. QED
  BY <1>1, <1>2, <1>3, <1>4 DEF FuzzyBase

LEMMA LexicalGathers ==
  ASSUME TablesInv, FuzzyBase, search = "fuzzy", LexicalSearch, UNCHANGED tables
  PROVE  Gathered'
<1> DEFINE f == Filtered(byRank, Visible(request.project))
<1>1. f \in Seq(Chunks) /\ Range(f) = Range(byRank) \cap Visible(request.project)
  BY FilteredLists DEF FuzzyBase, Requested
<1> HIDE DEF f
<1>2. 2 * request.limit \in Nat
  BY DEF FuzzyBase, Requested
<1>3. lexical' \in Seq(Chunks) /\ Range(lexical') \subseteq Range(f)
  BY <1>1, <1>2, FirstIsPrefix DEF LexicalSearch, f
<1>4. \A c \in Range(lexical') : Owner[c] \in stored
  BY <1>1, <1>3 DEF Visible
<1>5. vector' = vector /\ stored' = stored
  BY DEF LexicalSearch, tables
<1>6. QED
  BY <1>3, <1>4, <1>5 DEF Gathered, FuzzyBase

LEMMA VectorGathers ==
  ASSUME TablesInv, FuzzyBase, search = "fuzzy", VectorSearch, UNCHANGED tables
  PROVE  Gathered'
<1> DEFINE f == Filtered(byDistance, vectors)
           limit == 2 * request.limit
<1>1. f \in Seq(Chunks) /\ Range(f) = Range(byDistance) \cap vectors
  BY FilteredLists DEF FuzzyBase, Requested
<1>2. limit \in Nat /\ 10 * limit \in Nat
  BY DEF FuzzyBase, Requested
<1>3. vector' = IF request.project = AnyProject THEN First(limit, f)
                ELSE Ascending(Range(First(10 * limit, f)) \cap Visible(request.project))
  BY DEF VectorSearch
<1> HIDE DEF f, limit
<1>4. /\ First(limit, f) \in Seq(Chunks) /\ Range(First(limit, f)) \subseteq Range(f)
      /\ First(10 * limit, f) \in Seq(Chunks) /\ Range(First(10 * limit, f)) \subseteq Range(f)
  BY <1>1, <1>2, FirstIsPrefix
<1>5. vector' \in Seq(Chunks) /\ \A c \in Range(vector') : Owner[c] \in stored
  <2>1. CASE request.project = AnyProject
    BY <1>1, <1>3, <1>4, <2>1 DEF TablesInv
  <2>2. CASE request.project # AnyProject
    <3> DEFINE S == Range(First(10 * limit, f)) \cap Visible(request.project)
    <3>1. S \in SUBSET Chunks /\ \A c \in S : Owner[c] \in stored
      BY DEF Visible
    <3>2. vector' = Ascending(S)
      BY <1>3, <2>2
    <3> HIDE DEF S
    <3>3. IsFiniteSet(S) /\ S \in SUBSET Int
      <4>1. S \in SUBSET Chunks /\ IsFiniteSet(Chunks) /\ Chunks \subseteq Nat
        BY <3>1, Ids
      <4>2. IsFiniteSet(S)
        BY <4>1, FS_Subset
      <4>3. QED
        BY <4>1, <4>2
    <3>4. Lists(Ascending(S), S)
      BY <3>3, AscendingLists
    <3>5. vector' \in Seq(S) /\ Range(vector') = S
      BY <3>2, <3>4 DEF Lists
    <3>6. vector' \in Seq(Chunks)
      <4>1. S \subseteq Chunks
        BY <3>1
      <4>2. QED
        BY <3>5, <4>1, SeqMonotonic
    <3>7. QED
      BY <3>1, <3>5, <3>6
  <2>3. QED
    BY <2>1, <2>2
<1>6. lexical' = lexical /\ stored' = stored
  BY DEF VectorSearch, tables
<1>7. QED
  BY <1>5, <1>6 DEF Gathered, FuzzyBase

(* What fusion and the order of the results draw from.                     *)
LEMMA FusedIsGathered ==
  ASSUME Gathered, NEW n \in Nat, NEW fused \in RRF(n)
  PROVE  \A c \in Range(fused) : c \in Chunks /\ Owner[c] \in stored
<1> DEFINE S == Range(lexical) \cup Range(vector)
<1>1. S \in SUBSET Chunks /\ \A c \in S : Owner[c] \in stored
  BY RangeOfSeq DEF Gathered
<1>2. PICK s \in SetToSeqs(S) : fused = First(n, s)
  BY DEF RRF, Sorted
<1> HIDE DEF S
<1>3. IsFiniteSet(S)
  BY <1>1, Ids, FS_Subset
<1>4. s \in Seq(S) /\ Range(s) = S
  BY <1>3, SetToSeqsLists DEF Lists
<1>5. Range(fused) \subseteq S
  BY <1>2, <1>4, FirstIsPrefix
<1>6. QED
  BY <1>1, <1>5

(* Dividing a number makes it smaller.                                     *)
LEMMA Quotient ==
  ASSUME NEW n \in Nat, NEW k \in Nat \ {0}
  PROVE  n \div k \in Nat /\ n \div k <= n /\ \A j \in 1..k : j * (n \div k) <= n
<1> DEFINE q == n \div k
           r == n % k
<1>1. q \in Int /\ r \in Int /\ n = k * q + r /\ 0 <= r /\ r < k
  BY SMT
<1> HIDE DEF q, r
<1>2. q >= 0
  <2>1. ASSUME q <= 0 - 1 PROVE FALSE
    <3>1. k * q <= k * (0 - 1)
      BY <1>1, <2>1, SMT
    <3>2. QED
      BY <1>1, <3>1
  <2>2. QED
    BY <1>1, <2>1
<1>3. k * q <= n
  BY <1>1
<1>4. ASSUME NEW j \in 1..k PROVE j * q <= n
  <2>1. PICK e \in Nat : k = j + e
    <3>1. k - j \in Nat /\ k = j + (k - j)
      OBVIOUS
    <3>2. QED
      BY <3>1
  <2>2. k * q = j * q + e * q
    BY <1>1, <2>1, SMT
  <2>3. e * q >= 0
    BY <1>1, <1>2, SMT
  <2>4. j * q \in Int /\ e * q \in Int
    BY <1>1
  <2>5. QED
    BY <1>1, <1>3, <2>2, <2>3, <2>4
<1>5. q <= n
  <2>1. 1 \in 1..k /\ 1 * q = q
    BY <1>1
  <2>2. QED
    BY <1>4, <2>1
<1>6. QED
  BY <1>1, <1>2, <1>4, <1>5 DEF q

(* No score that fusion gives reaches that of the newest memory.           *)
LEMMA FusedBelowOne ==
  ASSUME Gathered, NEW c
  PROVE  Fused(c) \in Nat /\ Fused(c) < One
<1>1. ASSUME NEW s \in Seq(Chunks)
      PROVE  Reciprocal(s, c) \in Nat /\ 61 * Reciprocal(s, c) <= One
  <2>1. CASE c \notin Range(s)
    BY <2>1 DEF Reciprocal, One
  <2>2. CASE c \in Range(s)
    <3> DEFINE i == CHOOSE j \in DOMAIN s : s[j] = c
    <3>1. i \in DOMAIN s
      BY <2>2 DEF Range
    <3>2. Reciprocal(s, c) = One \div (60 + i)
      BY <2>2 DEF Reciprocal
    <3> HIDE DEF i
    <3>3. i \in Nat /\ i >= 1
      BY <3>1, LenProperties
    <3>4. 60 + i \in Nat \ {0} /\ 61 \in 1..60 + i /\ One \in Nat
      BY <3>3 DEF One
    <3> HIDE DEF One
    <3>5. One \div (60 + i) \in Nat /\ 61 * (One \div (60 + i)) <= One
      BY <3>4, Quotient
    <3>6. QED
      BY <3>2, <3>5
  <2>3. QED
    BY <2>1, <2>2
<1>2. /\ Reciprocal(lexical, c) \in Nat /\ 61 * Reciprocal(lexical, c) <= One
      /\ Reciprocal(vector, c) \in Nat /\ 61 * Reciprocal(vector, c) <= One
  BY <1>1 DEF Gathered
<1>3. \A a, b \in Nat : 61 * a <= One /\ 61 * b <= One => a + b \in Nat /\ a + b < One
  BY DEF One
<1>4. Fused(c) = Reciprocal(lexical, c) + Reciprocal(vector, c)
  BY DEF Fused
<1> HIDE DEF One
<1>5. QED
  BY <1>2, <1>3, <1>4

LEMMA DecayedBelowOne ==
  ASSUME Gathered, NEW c, NEW m \in Memories
  PROVE  Decayed(Fused(c), m) \in Nat /\ Decayed(Fused(c), m) < One
<1>1. Fused(c) \in Nat /\ Fused(c) < One /\ One \in Int
  BY FusedBelowOne DEF One
<1>2. Decay[m] \in Nat \ {0}
  BY FuzzySearchAssumption
<1>3. Fused(c) \div Decay[m] \in Nat /\ Fused(c) \div Decay[m] <= Fused(c)
  BY <1>1, <1>2, Quotient
<1>4. Fused(c) \div Decay[m] < One
  BY <1>1, <1>3
<1>5. QED
  BY <1>1, <1>3, <1>4, Zenon DEF Decayed

-----------------------------------------------------------------------------
(* The lookup finds stored memories, with the status they have at that     *)
(* moment.                                                                 *)
LEMMA LookupFinds ==
  ASSUME TablesInv, FuzzyBase, search = "fuzzy", Lookup
  PROVE  /\ DOMAIN found' \subseteq stored
         /\ \A m \in DOMAIN found' :
              /\ found'[m].superseded = (m \in superseded)
              /\ found'[m].score \in Nat /\ found'[m].score < One
<1>1. 2 * request.limit \in Nat
  BY DEF FuzzyBase, Requested
<1>2. PICK fused \in RRF(2 * request.limit) :
         found' = [m \in {Owner[c] : c \in Range(fused)} |->
                     [score      |-> Decayed(Fused(Of(m, fused)[1]), m),
                      superseded |-> Status(m),
                      highlights |-> First(3, Of(m, fused))]]
  BY DEF Lookup
<1>3. \A c \in Range(fused) : c \in Chunks /\ Owner[c] \in stored
  BY <1>1, FusedIsGathered DEF FuzzyBase
<1>4. DOMAIN found' = {Owner[c] : c \in Range(fused)}
  BY <1>2
<1>5. DOMAIN found' \subseteq stored
  BY <1>3, <1>4
<1>6. ASSUME NEW m \in DOMAIN found'
      PROVE  /\ found'[m].superseded = (m \in superseded)
             /\ found'[m].score \in Nat /\ found'[m].score < One
  <2>1. found'[m] = [score      |-> Decayed(Fused(Of(m, fused)[1]), m),
                     superseded |-> Status(m),
                     highlights |-> First(3, Of(m, fused))]
    BY <1>2, <1>4
  <2>2. found'[m].superseded = Status(m) /\ found'[m].score = Decayed(Fused(Of(m, fused)[1]), m)
    BY <2>1
  <2>3. m \in Memories
    BY <1>5 DEF TablesInv
  <2>4. Decayed(Fused(Of(m, fused)[1]), m) \in Nat /\ Decayed(Fused(Of(m, fused)[1]), m) < One
    BY <2>3, DecayedBelowOne DEF FuzzyBase
  <2>5. found'[m].superseded = (m \in superseded)
    BY <2>2 DEF Status
  <2>6. QED
    BY <2>2, <2>4, <2>5, Zenon
<1>7. QED
  BY <1>5, <1>6

(* The candidates: memories, newest first, each once.                      *)
LEMMA NewestIsList ==
  ASSUME TablesInv, Requested
  PROVE  /\ Newest \in Seq(Memories) /\ IsInjective(Newest)
         /\ DOMAIN Newest = 1..Len(Newest) /\ Len(Newest) \in Nat
         /\ Range(Newest) \subseteq Memories
<1> DEFINE current == {m \in stored \cap OnTopic \cap Range(Owner) :
                         m \notin superseded /\ request.project \in {AnyProject, Project[m]}}
<1>1. current \in SUBSET Memories
  BY DEF TablesInv
<1>2. Newest = First(request.limit, Descending(current))
  BY DEF Newest
<1> HIDE DEF current
<1>3. IsFiniteSet(Memories) /\ Memories \subseteq Nat
  BY Ids
<1>4. IsFiniteSet(current)
  BY <1>1, <1>3, FS_Subset
<1>5. current \in SUBSET Int
  BY <1>1, <1>3
<1>6. Lists(Descending(current), current)
  BY <1>4, <1>5, DescendingLists
<1>7. Descending(current) \in Seq(current) /\ IsInjective(Descending(current))
  BY <1>6 DEF Lists
<1>8. current \subseteq Memories
  BY <1>1
<1>9. Descending(current) \in Seq(Memories)
  BY <1>7, <1>8, SeqMonotonic
<1>10. request.limit \in Nat
  BY DEF Requested
<1>11. Newest \in Seq(Memories) /\ IsInjective(Newest)
  BY <1>2, <1>7, <1>9, <1>10, FirstIsPrefix
<1>12. QED
  BY <1>11, LenProperties, RangeOfSeq

LEMMA FuzzyStepBase ==
  ASSUME TablesInv, FuzzyBase, [SearchNext]_searchVars
  PROVE  FuzzyBase'
<1>1. stored \subseteq stored' /\ search' = search
  BY TablesStep DEF SearchNext, searchVars
<1>2. ASSUME UNCHANGED fuzzyVars PROVE FuzzyBase'
  <2>1. UNCHANGED <<request, byRank, byDistance, fpc, lexical, vector, found, candidates, results>>
    BY <1>2 DEF fuzzyVars, inputs
  <2>2. Requested => Requested'
    BY <2>1 DEF Requested
  <2>3. Gathered'
    BY <1>1, <2>1 DEF FuzzyBase, Gathered
  <2>4. QED
    BY <1>1, <2>1, <2>2, <2>3 DEF FuzzyBase
<1>3. ASSUME search = "fuzzy", Fuzzy, UNCHANGED tables PROVE FuzzyBase'
  <2>1. UNCHANGED <<request, byRank, byDistance>> /\ stored' = stored
    BY <1>3 DEF Fuzzy, LexicalSearch, EmbedQuery, VectorSearch, VectorFails, Lookup, Recency,
                Coverage, inputs, tables
  <2>2. Requested'
    BY <1>3, <2>1 DEF FuzzyBase, Requested
  <2>3. CASE LexicalSearch
    <3>1. Gathered'
      BY <1>3, <2>3, LexicalGathers
    <3>2. QED
      BY <1>1, <1>3, <2>2, <2>3, <3>1 DEF FuzzyBase, LexicalSearch
  <2>4. CASE VectorSearch
    <3>1. Gathered'
      BY <1>3, <2>4, VectorGathers
    <3>2. UNCHANGED <<found, candidates, results>> /\ fpc = "vector" /\ fpc' = "lookup"
      BY <2>4 DEF VectorSearch
    <3>3. QED
      BY <1>1, <1>3, <2>2, <3>1, <3>2 DEF FuzzyBase
  <2>5. CASE EmbedQuery \/ VectorFails
    <3>1. /\ UNCHANGED <<lexical, vector, found, candidates, results>>
          /\ fpc \in {"embed", "vector"} /\ fpc' \in {"vector", "lookup"}
      BY <2>5 DEF EmbedQuery, VectorFails
    <3>2. Gathered'
      BY <2>1, <3>1 DEF FuzzyBase, Gathered
    <3>3. QED
      BY <1>1, <1>3, <2>2, <3>1, <3>2 DEF FuzzyBase
  <2>6. CASE Lookup
    <3>1. DOMAIN found' \subseteq Memories
      BY <1>3, <2>6, LookupFinds DEF TablesInv
    <3>2. /\ UNCHANGED <<lexical, vector, candidates, results>>
          /\ fpc = "lookup" /\ fpc' \in {"done", "recency", "coverage"}
      BY <2>6 DEF Lookup
    <3>3. Gathered'
      BY <2>1, <3>2 DEF FuzzyBase, Gathered
    <3>4. QED
      BY <1>1, <1>3, <2>2, <3>1, <3>2, <3>3 DEF FuzzyBase
  <2>7. CASE Recency
    <3>1. DOMAIN found' = DOMAIN found \cup Range(Newest)
      BY <2>7 DEF Recency
    <3>2. DOMAIN found' \subseteq Memories
      BY <1>3, <3>1, NewestIsList DEF FuzzyBase
    <3>3. UNCHANGED <<lexical, vector, results>> /\ fpc = "recency" /\ fpc' = "coverage"
      BY <2>7 DEF Recency
    <3>4. Gathered'
      BY <2>1, <3>3 DEF FuzzyBase, Gathered
    <3>5. QED
      BY <1>1, <1>3, <2>2, <3>2, <3>3, <3>4 DEF FuzzyBase
  <2>8. CASE Coverage
    <3>1. UNCHANGED <<lexical, vector, found, candidates>> /\ fpc = "coverage" /\ fpc' = "done"
      BY <2>8 DEF Coverage
    <3>2. Gathered'
      BY <2>1, <3>1 DEF FuzzyBase, Gathered
    <3>3. QED
      BY <1>1, <1>3, <2>2, <3>1, <3>2 DEF FuzzyBase
  <2>9. QED
    BY <1>3, <2>3, <2>4, <2>5, <2>6, <2>7, <2>8 DEF Fuzzy
<1>4. QED
  BY <1>2, <1>3 DEF SearchNext, searchVars

(* What is shown of a memory is what was found of it.                      *)
LEMMA CoverageShows ==
  ASSUME FuzzyBase, search = "fuzzy", Coverage
  PROVE  /\ \A i \in DOMAIN results' :
              /\ results'[i].memory \in DOMAIN found
              /\ results'[i].superseded = found[results'[i].memory].superseded
         /\ results' # <<>> => 1 \in DOMAIN results' /\
              \A m \in DOMAIN found : Final(results'[1].memory) >= Final(m) \/ m = results'[1].memory
<1>1. PICK s \in SetToSeqs(DOMAIN found) :
         /\ \A i, j \in DOMAIN s : i < j => Final(s[i]) >= Final(s[j])
         /\ results' = [i \in DOMAIN First(request.limit, s) |->
                          [memory     |-> s[i],
                           superseded |-> found[s[i]].superseded,
                           coverage   |-> Covered(s[i])]]
  BY DEF Coverage, Sorted
<1>2. IsFiniteSet(DOMAIN found)
  <2>1. DOMAIN found \in SUBSET Memories /\ IsFiniteSet(Memories)
    BY Ids DEF FuzzyBase
  <2>2. QED
    BY <2>1, FS_Subset
<1>3. /\ s \in Seq(DOMAIN found) /\ Range(s) = DOMAIN found
      /\ DOMAIN s = 1..Len(s) /\ Len(s) \in Nat
  BY <1>2, SetToSeqsLists DEF Lists
<1>4. request.limit \in Nat
  BY DEF FuzzyBase, Requested
<1> DEFINE D == DOMAIN First(request.limit, s)
<1>5. /\ \A i \in D : i \in DOMAIN s
      /\ D = 1..Len(First(request.limit, s)) /\ Len(First(request.limit, s)) \in Nat
  BY <1>3, <1>4, FirstIsPrefix, LenProperties
<1>6. DOMAIN results' = D
  BY <1>1
<1>7. \A i \in D : /\ results'[i].memory = s[i] /\ s[i] \in DOMAIN found
                   /\ results'[i].superseded = found[s[i]].superseded
  BY <1>1, <1>3, <1>5 DEF Range
<1> HIDE DEF D
<1>8. ASSUME results' # <<>> PROVE 1 \in D
  <2>1. ASSUME D = {} PROVE FALSE
    <3>1. results' = [i \in {} |-> results'[i]]
      BY <1>1, <1>6, <2>1 DEF D
    <3>2. results' = <<>>
      BY <3>1
    <3>3. QED
      BY <1>8, <3>2
  <2>2. PICK i \in D : TRUE
    BY <2>1
  <2>3. QED
    BY <1>5, <2>2
<1>9. ASSUME 1 \in D, NEW m \in DOMAIN found
      PROVE  Final(results'[1].memory) >= Final(m) \/ m = results'[1].memory
  <2>1. results'[1].memory = s[1] /\ 1 \in DOMAIN s
    BY <1>5, <1>7, <1>9
  <2>2. PICK j \in DOMAIN s : s[j] = m
    BY <1>3 DEF Range
  <2>3. j = 1 \/ 1 < j
    BY <1>3
  <2>4. 1 < j => Final(s[1]) >= Final(s[j])
    BY <1>1, <2>1
  <2>5. QED
    BY <2>1, <2>2, <2>3, <2>4, Zenon
<1>10. QED
  BY <1>6, <1>7, <1>8, <1>9

-----------------------------------------------------------------------------
(* Without recency what was found has the status of the lookup, in which   *)
(* a stored replacement and what it replaces agree.                        *)
VersionInv ==
  search = "fuzzy" /\ ~request.recency =>
    /\ fpc # "recency"
    /\ fpc \in {"coverage", "done"} =>
         \A m, n \in DOMAIN found : Replaces[n] = m => found[m].superseded
    /\ \A i \in DOMAIN results :
         /\ results[i].memory \in DOMAIN found
         /\ results[i].superseded = found[results[i].memory].superseded
         /\ fpc = "done"

LEMMA VersionStep ==
  ASSUME TablesInv, FuzzyBase, VersionInv, [SearchNext]_searchVars
  PROVE  VersionInv'
<1>1. ASSUME UNCHANGED <<request, found, fpc, results, search>> PROVE VersionInv'
  BY <1>1 DEF VersionInv
<1>2. ASSUME search = "fuzzy", Fuzzy, UNCHANGED <<tables, search>>, ~request.recency PROVE VersionInv'
  <2>1. request' = request
    BY <1>2 DEF Fuzzy, LexicalSearch, EmbedQuery, VectorSearch, VectorFails, Lookup, Recency,
                Coverage, inputs
  <2>2. fpc # "done" => DOMAIN results = {}
    BY DEF FuzzyBase
  <2>3. CASE LexicalSearch \/ EmbedQuery \/ VectorSearch \/ VectorFails
    <3>1. fpc # "done" /\ results' = results /\ fpc' \in {"embed", "vector", "lookup"}
      BY <2>3 DEF LexicalSearch, EmbedQuery, VectorSearch, VectorFails
    <3>2. QED
      BY <2>2, <3>1 DEF VersionInv
  <2>4. CASE Lookup
    <3>1. fpc # "done" /\ results' = results /\ fpc' # "recency"
      BY <1>2, <2>4 DEF Lookup
    <3>2. ASSUME NEW m \in DOMAIN found', NEW n \in DOMAIN found', Replaces[n] = m
          PROVE  found'[m].superseded
      <4>1. m \in stored /\ n \in stored /\ found'[m].superseded = (m \in superseded)
        BY <1>2, <2>4, LookupFinds
      <4>2. m \in Memories /\ m # 0
        BY <4>1, Ids DEF TablesInv
      <4>3. m \in superseded
        BY <3>2, <4>1, <4>2 DEF TablesInv
      <4>4. QED
        BY <4>1, <4>3
    <3>3. QED
      BY <2>2, <3>1, <3>2 DEF VersionInv
  <2>5. CASE Recency
    BY <1>2, <2>5 DEF Recency, VersionInv
  <2>6. CASE Coverage
    <3>1. found' = found /\ fpc = "coverage" /\ fpc' = "done"
      BY <2>6 DEF Coverage
    <3>2. \A m, n \in DOMAIN found : Replaces[n] = m => found[m].superseded
      BY <1>2, <3>1 DEF VersionInv
    <3>3. \A i \in DOMAIN results' :
              /\ results'[i].memory \in DOMAIN found
              /\ results'[i].superseded = found[results'[i].memory].superseded
      BY <1>2, <2>6, CoverageShows
    <3>4. QED
      BY <3>1, <3>2, <3>3 DEF VersionInv
  <2>7. QED
    BY <1>2, <2>3, <2>4, <2>5, <2>6 DEF Fuzzy
<1>3. ASSUME search = "fuzzy", Fuzzy, UNCHANGED search, request.recency PROVE VersionInv'
  <2>1. request' = request
    BY <1>3 DEF Fuzzy, LexicalSearch, EmbedQuery, VectorSearch, VectorFails, Lookup, Recency,
                Coverage, inputs
  <2>2. QED
    BY <1>3, <2>1 DEF VersionInv
<1>4. QED
  BY <1>1, <1>2, <1>3 DEF SearchNext, searchVars, fuzzyVars, inputs

(* x leads: it has the full score, no penalty, and nothing else reaches    *)
(* it.                                                                     *)
Leading(x) ==
  /\ x \in DOMAIN found /\ found[x].score = One /\ ~found[x].superseded
  /\ \A m \in DOMAIN found : m # x => found[m].score < One

(* What a query finds scores below One; what the newest memories are       *)
(* merged with has the first of them in the lead.                          *)
NewestInv ==
  /\ search = "fuzzy" /\ fpc \in {"recency", "coverage"} =>
       \A m \in DOMAIN found : found[m].score \in Nat
  /\ search = "fuzzy" /\ fpc = "recency" =>
       \A m \in DOMAIN found : found[m].score < One
  /\ fpc = "coverage" /\ candidates # <<>> => Leading(candidates[1])
  /\ NewestFirst

LEMMA BoostBelowOne ==
  /\ Boost(1) = One
  /\ \A i \in Nat : i > 1 => Boost(i) < One /\ Boost(i) \in Int
  /\ \A i \in Nat : Boost(i) \in Int
  /\ One \in Nat /\ One > 0
BY DEF Boost, One

(* Merging puts the first candidate in front.                              *)
LEMMA RecencyLeads ==
  ASSUME TablesInv, FuzzyBase, NewestInv, search = "fuzzy", Recency
  PROVE  /\ \A m \in DOMAIN found' : found'[m].score \in Nat
         /\ candidates' # <<>> => Leading(candidates[1])'
<1> DEFINE old(m) == IF m \in DOMAIN found THEN found[m]
                     ELSE [score |-> 0, superseded |-> FALSE, highlights |-> <<>>]
           at(m) == CHOOSE i \in DOMAIN Newest : Newest[i] = m
           chunk(m) == CHOOSE c \in Chunks : Owner[c] = m /\ \A d \in Chunks :
                                               Owner[d] = m => c <= d
<1>1. /\ candidates' = Newest
      /\ found' = [m \in DOMAIN found \cup Range(Newest) |->
                     IF m \notin Range(Newest) THEN old(m)
                     ELSE Merged(m, old(m), at(m), chunk(m))]
  BY DEF Recency
<1>2. \A m \in DOMAIN found \cup Range(Newest) : old(m).score \in Nat /\ old(m).score < One
  <2>1. \A m \in DOMAIN found : found[m].score \in Nat /\ found[m].score < One
    BY DEF Recency, NewestInv
  <2>2. \A m : m \notin DOMAIN found => old(m).score = 0
    OBVIOUS
  <2>3. \A m \in DOMAIN found : old(m) = found[m]
    OBVIOUS
  <2> HIDE DEF old
  <2>4. QED
    BY <2>1, <2>2, <2>3, BoostBelowOne
<1>3. \A m \in Range(Newest) : at(m) \in DOMAIN Newest /\ Newest[at(m)] = m
  BY DEF Range
<1>4. DOMAIN found' = DOMAIN found \cup Range(Newest)
  BY <1>1
<1> HIDE DEF old, at, chunk
<1>5. \A m \in DOMAIN found' : m \notin Range(Newest) => found'[m] = old(m)
  BY <1>1, <1>4
<1>6. \A m \in Range(Newest) :
        /\ found'[m].score = IF Boost(at(m)) > old(m).score THEN Boost(at(m)) ELSE old(m).score
        /\ found'[m].superseded = FALSE
  <2>1. SUFFICES ASSUME NEW m \in Range(Newest)
                 PROVE  /\ found'[m].score = IF Boost(at(m)) > old(m).score THEN Boost(at(m)) ELSE old(m).score
                        /\ found'[m].superseded = FALSE
    OBVIOUS
  <2>2. found'[m] = Merged(m, old(m), at(m), chunk(m))
    BY <1>1, <1>4
  <2>3. QED
    BY <2>2 DEF Merged
<1>7. /\ Newest \in Seq(Memories) /\ IsInjective(Newest)
      /\ DOMAIN Newest = 1..Len(Newest) /\ Len(Newest) \in Nat
  BY NewestIsList DEF FuzzyBase
<1>8. \A m \in Range(Newest) : at(m) \in Nat /\ Boost(at(m)) \in Int
  BY <1>3, <1>7, BoostBelowOne
<1>9. \A m \in DOMAIN found' : found'[m].score \in Nat
  <2>1. SUFFICES ASSUME NEW m \in DOMAIN found' PROVE found'[m].score \in Nat
    OBVIOUS
  <2>2. old(m).score \in Nat
    BY <1>2, <1>4
  <2>3. CASE m \in Range(Newest)
    <3>1. Boost(at(m)) \in Int
      BY <1>8, <2>3
    <3>2. CASE Boost(at(m)) > old(m).score
      BY <1>6, <2>2, <2>3, <3>1, <3>2
    <3>3. CASE ~(Boost(at(m)) > old(m).score)
      BY <1>6, <2>2, <2>3, <3>3
    <3>4. QED
      BY <3>2, <3>3
  <2>4. CASE m \notin Range(Newest)
    BY <1>5, <2>2, <2>4
  <2>5. QED
    BY <2>3, <2>4
<1>10. ASSUME candidates' # <<>> PROVE Leading(candidates[1])'
  <2> DEFINE x == Newest[1]
  <2>1. 1 \in DOMAIN Newest
    BY <1>1, <1>7, <1>10, EmptySeq
  <2>2. x \in Range(Newest) /\ candidates'[1] = x
    BY <1>1, <2>1 DEF Range
  <2>3. \A m \in Range(Newest) : m # x => at(m) # 1
    BY <1>3
  <2>4. at(x) = 1
    BY <1>3, <1>7, <2>1, <2>2 DEF IsInjective
  <2> HIDE DEF x
  <2>5. found'[x].score = One
    BY <1>2, <1>6, <2>2, <2>4, BoostBelowOne
  <2>6. ASSUME NEW m \in DOMAIN found', m # x PROVE found'[m].score < One
    <3>1. old(m).score \in Nat /\ old(m).score < One
      BY <1>2, <1>4
    <3>2. CASE m \in Range(Newest)
      <4>1. at(m) \in Nat /\ at(m) > 1
        BY <1>3, <1>7, <2>3, <2>6, <3>2
      <4>2. Boost(at(m)) < One
        BY <4>1, BoostBelowOne
      <4>3. QED
        BY <1>6, <3>1, <3>2, <4>2
    <3>3. CASE m \notin Range(Newest)
      BY <1>5, <3>1, <3>3
    <3>4. QED
      BY <3>2, <3>3
  <2>7. x \in DOMAIN found' /\ ~found'[x].superseded
    BY <1>4, <1>6, <2>2
  <2>8. QED
    BY <2>2, <2>5, <2>6, <2>7 DEF Leading
<1>11. QED
  BY <1>9, <1>10

(* The order of the results keeps it in front.                             *)
LEMMA CoverageKeepsLeader ==
  ASSUME FuzzyBase, NewestInv, search = "fuzzy", Coverage
  PROVE  NewestFirst'
<1> SUFFICES ASSUME results' # <<>>, candidates # <<>>
             PROVE  results'[1].memory = candidates[1]
  BY DEF Coverage, NewestFirst
<1> DEFINE x == candidates[1]
           y == results'[1].memory
<1>1. Leading(x) /\ \A m \in DOMAIN found : found[m].score \in Nat
  BY DEF Coverage, NewestInv
<1>2. \A m \in DOMAIN found : Final(y) >= Final(m) \/ m = y
  BY CoverageShows
<1>3. y \in DOMAIN found
  <2>1. 1 \in DOMAIN results'
    BY CoverageShows
  <2>2. QED
    BY <2>1, CoverageShows
<1>4. Final(x) = One
  BY <1>1 DEF Leading, Final
<1>5. \A m \in DOMAIN found : m # x => Final(m) \in Int /\ Final(m) < One
  <2>1. SUFFICES ASSUME NEW m \in DOMAIN found, m # x PROVE Final(m) \in Int /\ Final(m) < One
    OBVIOUS
  <2>2. found[m].score \in Nat /\ found[m].score < One /\ One \in Nat
    BY <1>1, <2>1, BoostBelowOne DEF Leading
  <2>3. found[m].score \div 2 \in Int /\ found[m].score \div 2 < One
    BY <2>2
  <2>4. QED
    BY <2>2, <2>3 DEF Final
<1>6. x \in DOMAIN found
  BY <1>1 DEF Leading
<1> HIDE DEF x, y
<1>7. ASSUME y # x PROVE FALSE
  <2>1. Final(y) \in Int /\ Final(y) < One /\ Final(y) >= One
    BY <1>2, <1>3, <1>4, <1>5, <1>6, <1>7
  <2>2. QED
    BY <2>1, BoostBelowOne
<1>8. QED
  BY <1>7 DEF x, y

LEMMA NewestStep ==
  ASSUME TablesInv, FuzzyBase, NewestInv, [SearchNext]_searchVars
  PROVE  NewestInv'
<1>1. ASSUME UNCHANGED <<request, found, fpc, results, candidates, search>> PROVE NewestInv'
  BY <1>1 DEF NewestInv, NewestFirst, Leading
<1>2. ASSUME search = "fuzzy", Fuzzy, UNCHANGED <<tables, search>> PROVE NewestInv'
  <2>1. fpc # "done" => results = <<>>
    BY DEF FuzzyBase
  <2>2. CASE LexicalSearch \/ EmbedQuery \/ VectorSearch \/ VectorFails
    <3>1. fpc # "done" /\ results' = results /\ fpc' \in {"embed", "vector", "lookup"}
      BY <2>2 DEF LexicalSearch, EmbedQuery, VectorSearch, VectorFails
    <3>2. QED
      BY <2>1, <3>1 DEF NewestInv, NewestFirst
  <2>3. CASE Lookup
    <3>1. \A m \in DOMAIN found' : found'[m].score \in Nat /\ found'[m].score < One
      BY <1>2, <2>3, LookupFinds
    <3>2. fpc = "lookup" /\ results' = results /\ candidates' = candidates
      BY <2>3 DEF Lookup
    <3>3. candidates = <<>> /\ results = <<>>
      BY <3>2 DEF FuzzyBase
    <3>4. QED
      BY <3>1, <3>2, <3>3 DEF NewestInv, NewestFirst
  <2>4. CASE Recency
    <3>1. fpc # "done" /\ results' = results /\ fpc' = "coverage"
      BY <2>4 DEF Recency
    <3>2. /\ \A m \in DOMAIN found' : found'[m].score \in Nat
          /\ candidates' # <<>> => Leading(candidates[1])'
      BY <1>2, <2>4, RecencyLeads
    <3>3. NewestFirst'
      BY <2>1, <3>1 DEF NewestFirst
    <3>4. QED
      BY <3>1, <3>2, <3>3 DEF NewestInv
  <2>5. CASE Coverage
    <3>1. NewestFirst' /\ fpc' = "done"
      BY <1>2, <2>5, CoverageKeepsLeader DEF Coverage
    <3>2. QED
      BY <3>1 DEF NewestInv
  <2>6. QED
    BY <1>2, <2>2, <2>3, <2>4, <2>5 DEF Fuzzy
<1>3. QED
  BY <1>1, <1>2 DEF SearchNext, searchVars, fuzzyVars, inputs

-----------------------------------------------------------------------------
FuzzyInv == TablesInv /\ FuzzyBase /\ VersionInv /\ NewestInv

LEMMA FuzzyInitInv == SearchInit => FuzzyInv
<1> SUFFICES ASSUME SearchInit PROVE FuzzyInv
  OBVIOUS
<1>1. TablesInv /\ FuzzyBase
  BY TablesInitInv, FuzzyInitBase
<1>2. fpc = "lexical" /\ results = <<>> /\ DOMAIN <<>> = {}
  BY DEF SearchInit, FuzzyInit, FuzzyBlank
<1>3. VersionInv /\ NewestInv
  BY <1>2 DEF VersionInv, NewestInv, NewestFirst
<1>4. QED
  BY <1>1, <1>3 DEF FuzzyInv

LEMMA FuzzyInvHolds == SearchSpec => []FuzzyInv
<1>1. FuzzyInv /\ [SearchNext]_searchVars => FuzzyInv'
  BY TablesStep, FuzzyStepBase, VersionStep, NewestStep DEF FuzzyInv
<1>2. QED
  BY FuzzyInitInv, <1>1, PTL DEF SearchSpec

(* For any memories, rankings and limits: FuzzySearch without recency      *)
(* never shows a memory and its replacement both as current, though the    *)
(* replacement may be stored between any two of its queries.               *)
THEOREM OneVersionCurrent == SearchSpec => []OneVersionIsCurrent
<1>1. FuzzyInv => OneVersionIsCurrent
  <2>1. SUFFICES ASSUME FuzzyInv, ~request.recency,
                        NEW i \in DOMAIN results, NEW j \in DOMAIN results,
                        Replaces[results[j].memory] = results[i].memory
                 PROVE  results[i].superseded
    BY DEF OneVersionIsCurrent
  <2>2. DOMAIN <<>> = {}
    OBVIOUS
  <2>3. search = "fuzzy"
    BY <2>1, <2>2 DEF FuzzyInv, FuzzyBase
  <2>4. QED
    BY <2>1, <2>3 DEF FuzzyInv, VersionInv
<1>2. QED
  BY <1>1, FuzzyInvHolds, PTL

(* With recency the first candidate comes first in the results, whatever   *)
(* the queries before found and whatever is stored meanwhile.              *)
THEOREM NewestLeads == SearchSpec => []NewestFirst
<1>1. FuzzyInv => NewestFirst
  BY DEF FuzzyInv, NewestInv
<1>2. QED
  BY <1>1, FuzzyInvHolds, PTL

-----------------------------------------------------------------------------
(***************************************************************************)
(* ExactSearch. Of fewer rows than the limit of a scan none is missing;    *)
(* the limit of the second scan has room for all rows of the first.        *)
(***************************************************************************)
(* The rows of a scan that are new, if they are fewer than its limit       *)
(* leaves room for, are all there are.                                     *)
NewRows(fresh, e, B, n) ==
  /\ fresh \in Seq(Chunks) /\ IsInjective(fresh)
  /\ Range(fresh) \cap Range(e) = {}
  /\ Len(fresh) + Len(e) < n => B \subseteq Range(e) \cup Range(fresh)

LEMMA FreshRows ==
  ASSUME NEW e \in Seq(Chunks), IsInjective(e), NEW B \in SUBSET Chunks, NEW n \in Nat
  PROVE  NewRows(Filtered(First(n, Ascending(B)), Chunks \ Range(e)), e, B, n)
<1> DEFINE fresh == Filtered(First(n, Ascending(B)), Chunks \ Range(e))
<1> DEFINE all == Ascending(B)
           rows == First(n, all)
<1>1. B \in SUBSET Int /\ IsFiniteSet(B)
  <2>1. Chunks \subseteq Nat /\ IsFiniteSet(Chunks) /\ B \in SUBSET Chunks
    BY Ids
  <2>2. IsFiniteSet(B)
    BY <2>1, FS_Subset
  <2>3. QED
    BY <2>1, <2>2
<1>2. Lists(all, B)
  BY <1>1, AscendingLists
<1> HIDE DEF all
<1>3. all \in Seq(Chunks) /\ IsInjective(all) /\ Range(all) = B
  <2>1. all \in Seq(B) /\ IsInjective(all) /\ Range(all) = B
    BY <1>2 DEF Lists
  <2>2. QED
    BY <2>1
<1>4. /\ rows \in Seq(Chunks) /\ IsInjective(rows) /\ Range(rows) \subseteq Chunks
      /\ Len(rows) = (IF n < Len(all) THEN n ELSE Len(all)) /\ Len(all) \in Nat
      /\ Len(all) <= n => rows = all
  <2>1. /\ rows \in Seq(Chunks) /\ IsInjective(rows) /\ Range(rows) \subseteq Range(all)
        /\ Len(rows) = (IF n < Len(all) THEN n ELSE Len(all)) /\ Len(all) \in Nat
        /\ Len(all) <= n => rows = all
    BY <1>3, FirstIsPrefix
  <2>2. QED
    BY <1>3, <2>1
<1>5. fresh = Filtered(rows, Chunks \ Range(e))
  BY DEF all
<1> HIDE DEF rows, fresh
<1>6. /\ fresh \in Seq(Chunks) /\ IsInjective(fresh)
      /\ Range(fresh) = Range(rows) \cap (Chunks \ Range(e))
  <2> DEFINE new == Chunks \ Range(e)
  <2>1. fresh = Filtered(rows, new)
    BY <1>5
  <2> HIDE DEF new
  <2>2. /\ Filtered(rows, new) \in Seq(Chunks) /\ IsInjective(Filtered(rows, new))
        /\ Range(Filtered(rows, new)) = Range(rows) \cap new
    BY <1>4, FilteredLists
  <2>3. QED
    BY <2>1, <2>2 DEF new
<1>7. Range(rows) \subseteq Range(e) \cup Range(fresh)
  BY <1>4, <1>6
<1>8. \A s \in Seq(Chunks) : IsInjective(s) =>
        Len(s) = Cardinality(Range(s)) /\ IsFiniteSet(Range(s)) /\ Len(s) \in Nat
  <2>1. SUFFICES ASSUME NEW s \in Seq(Chunks), IsInjective(s)
                 PROVE  Len(s) = Cardinality(Range(s)) /\ IsFiniteSet(Range(s)) /\ Len(s) \in Nat
    OBVIOUS
  <2>2. Lists(s, Range(s)) /\ IsFiniteSet(Range(s))
    BY <2>1, InjectiveLists
  <2>3. QED
    BY <2>2 DEF Lists
<1>9. Len(rows) <= Len(e) + Len(fresh)
  <2> DEFINE U == Range(e) \cup Range(fresh)
  <2>1. /\ IsFiniteSet(U)
        /\ Cardinality(U) = Cardinality(Range(e)) + Cardinality(Range(fresh))
                              - Cardinality(Range(e) \cap Range(fresh))
    BY <1>6, <1>8, FS_Union
  <2>2. Cardinality(Range(e) \cap Range(fresh)) = 0
    <3>1. Range(e) \cap Range(fresh) = {}
      BY <1>6
    <3>2. QED
      BY <3>1, FS_EmptySet
  <2>3. Range(rows) \in SUBSET U
    BY <1>7
  <2> HIDE DEF U
  <2>4. Cardinality(Range(rows)) <= Cardinality(U)
    BY <2>1, <2>3, FS_Subset
  <2>5. /\ Len(rows) = Cardinality(Range(rows)) /\ Len(e) = Cardinality(Range(e))
        /\ Len(fresh) = Cardinality(Range(fresh))
        /\ Len(rows) \in Nat /\ Len(e) \in Nat /\ Len(fresh) \in Nat
    BY <1>4, <1>6, <1>8
  <2>6. Cardinality(U) = Len(e) + Len(fresh)
    BY <2>1, <2>2, <2>5
  <2>7. QED
    BY <2>4, <2>5, <2>6
<1>10. ASSUME Len(fresh) + Len(e) < n PROVE B \subseteq Range(e) \cup Range(fresh)
  <2>1. Len(rows) < n
    BY <1>4, <1>6, <1>8, <1>9, <1>10
  <2>2. rows = all
    BY <1>4, <2>1
  <2>3. QED
    BY <1>3, <1>7, <2>2
<1>11. NewRows(fresh, e, B, n)
  BY <1>6, <1>10 DEF NewRows
<1>12. QED
  BY <1>11 DEF fresh

(* Two sequences that share nothing, one after the other.                  *)
LEMMA JoinedLists ==
  ASSUME NEW T, NEW e \in Seq(T), NEW f \in Seq(T), IsInjective(e), IsInjective(f),
         Range(f) \cap Range(e) = {}
  PROVE  /\ e \o f \in Seq(T) /\ IsInjective(e \o f)
         /\ Range(e \o f) = Range(e) \cup Range(f)
         /\ Len(e \o f) = Len(e) + Len(f) /\ Len(e) \in Nat /\ Len(f) \in Nat
<1> DEFINE c == e \o f
           m == Len(e)
           n == Len(f)
<1>1. m \in Nat /\ n \in Nat /\ DOMAIN e = 1..m /\ DOMAIN f = 1..n
  BY LenProperties
<1>2. /\ c \in Seq(T) /\ Len(c) = m + n
      /\ \A i \in 1..(m + n) : c[i] = IF i <= m THEN e[i] ELSE f[i - m]
  BY ConcatProperties
<1>3. DOMAIN c = 1..(m + n)
  BY <1>2, LenProperties
<1> HIDE DEF c, m, n
<1>4. \A i \in DOMAIN c : \/ i \in DOMAIN e /\ c[i] = e[i]
                          \/ i > m /\ i - m \in DOMAIN f /\ c[i] = f[i - m]
  <2>1. SUFFICES ASSUME NEW i \in DOMAIN c
                 PROVE  \/ i \in DOMAIN e /\ c[i] = e[i]
                        \/ i > m /\ i - m \in DOMAIN f /\ c[i] = f[i - m]
    OBVIOUS
  <2>2. i \in 1..(m + n)
    BY <1>3
  <2>3. CASE i <= m
    <3>1. i \in DOMAIN e
      BY <1>1, <2>2, <2>3
    <3>2. QED
      BY <1>2, <2>2, <2>3, <3>1
  <2>4. CASE ~(i <= m)
    <3>1. i > m /\ i - m \in DOMAIN f
      BY <1>1, <2>2, <2>4
    <3>2. QED
      BY <1>2, <2>2, <2>4, <3>1
  <2>5. QED
    BY <2>3, <2>4
<1>5. \A i \in DOMAIN e, j \in DOMAIN f : e[i] # f[j]
  BY DEF Range
<1>6. ASSUME NEW i \in DOMAIN c, NEW j \in DOMAIN c, c[i] = c[j] PROVE i = j
  <2>1. CASE i \in DOMAIN e /\ c[i] = e[i]
    <3>1. j \in DOMAIN e /\ c[j] = e[j]
      BY <1>4, <1>5, <1>6, <2>1
    <3>2. QED
      BY <1>6, <2>1, <3>1 DEF IsInjective
  <2>2. CASE i > m /\ i - m \in DOMAIN f /\ c[i] = f[i - m]
    <3>1. j > m /\ j - m \in DOMAIN f /\ c[j] = f[j - m]
      BY <1>4, <1>5, <1>6, <2>2
    <3>2. i - m = j - m
      BY <1>6, <2>2, <3>1 DEF IsInjective
    <3>3. QED
      BY <1>1, <1>3, <3>2
  <2>3. QED
    BY <1>4, <2>1, <2>2
<1>7. IsInjective(c)
  BY <1>6 DEF IsInjective
<1>8. Range(c) = Range(e) \cup Range(f)
  <2>1. Range(c) \subseteq Range(e) \cup Range(f)
    BY <1>4 DEF Range
  <2>2. ASSUME NEW i \in DOMAIN e PROVE e[i] \in Range(c)
    <3>1. i \in 1..(m + n) /\ i <= m
      BY <1>1
    <3>2. QED
      BY <1>2, <1>3, <3>1 DEF Range
  <2>3. ASSUME NEW j \in DOMAIN f PROVE f[j] \in Range(c)
    <3> DEFINE i == m + j
    <3>1. i \in 1..(m + n) /\ ~(i <= m) /\ i - m = j
      BY <1>1
    <3> HIDE DEF i
    <3>2. c[i] = f[i - m]
      BY <1>2, <3>1
    <3>3. i \in DOMAIN c /\ c[i] = f[j]
      BY <1>3, <3>1, <3>2
    <3>4. QED
      BY <3>3 DEF Range
  <2>4. QED
    BY <2>1, <2>2, <2>3 DEF Range
<1>9. QED
  BY <1>1, <1>2, <1>7, <1>8 DEF c, m, n

(* The same rows in another order.                                         *)
LEMMA SortedLists ==
  ASSUME NEW T, NEW c \in Seq(T), IsInjective(c), NEW order \in SetToSeqs(DOMAIN c),
         NEW p, p = [i \in DOMAIN c |-> c[order[i]]]
  PROVE  p \in Seq(T) /\ IsInjective(p) /\ Range(p) = Range(c) /\ Len(p) = Len(c)
<1> DEFINE n == Len(c)
<1>1. n \in Nat /\ DOMAIN c = 1..n /\ \A i \in 1..n : c[i] \in T
  BY LenProperties
<1> HIDE DEF n
<1>2. IsFiniteSet(1..n) /\ Cardinality(1..n) = n
  BY <1>1, FS_Interval
<1>3. Lists(order, 1..n)
  BY <1>1, <1>2, SetToSeqsLists
<1>4. /\ DOMAIN order = 1..n /\ IsInjective(order) /\ Range(order) = 1..n
  BY <1>2, <1>3 DEF Lists
<1>5. /\ \A i \in 1..n : order[i] \in 1..n
      /\ \A k \in 1..n : \E i \in 1..n : order[i] = k
  BY <1>4 DEF Range
<1>6. DOMAIN p = 1..n /\ \A i \in 1..n : p[i] = c[order[i]]
  BY <1>1
<1>7. p \in Seq(T) /\ Len(p) = n
  <2>1. p \in [1..n -> T]
    BY <1>1, <1>5
  <2>2. p \in Seq(T)
    BY <1>1, <2>1, SeqDef
  <2>3. QED
    BY <1>1, <1>6, <2>2, LenProperties
<1>8. IsInjective(p)
  <2>1. SUFFICES ASSUME NEW i \in 1..n, NEW j \in 1..n, p[i] = p[j] PROVE i = j
    BY <1>6 DEF IsInjective
  <2>2. order[i] = order[j]
    BY <1>1, <1>5, <1>6, <2>1 DEF IsInjective
  <2>3. QED
    BY <1>4, <2>2 DEF IsInjective
<1>9. Range(p) = Range(c)
  <2>1. \A x \in Range(p) : x \in Range(c)
    BY <1>1, <1>5, <1>6 DEF Range
  <2>2. ASSUME NEW k \in 1..n PROVE c[k] \in Range(p)
    <3>1. PICK i \in 1..n : order[i] = k
      BY <1>5
    <3>2. i \in DOMAIN p /\ p[i] = c[k]
      BY <1>6, <3>1
    <3>3. QED
      BY <3>2 DEF Range
  <2>3. ASSUME NEW x \in Range(c) PROVE x \in Range(p)
    <3>1. PICK k \in 1..n : c[k] = x
      BY <1>1 DEF Range
    <3>2. QED
      BY <2>2, <3>1
  <2>4. QED
    BY <2>1, <2>3
<1>10. QED
  BY <1>7, <1>8, <1>9 DEF n

(* A search that is asked for has a limit.                                 *)
Wanted == wanted.limit \in Nat \ {0} /\ wanted.decay \in BOOLEAN

(* After the first query the full-text matches are in, or the answer is    *)
(* full; and if no decay is to be applied it is not full.                  *)
ExactInv ==
  /\ search # "exact" => epc = "fts"
  /\ search = "exact" => Wanted
  /\ epc \in {"fts", "substring", "done"}
  /\ matched \subseteq Matches(wanted.fts \cup wanted.sub)
  /\ epc # "fts" => exact \in Seq(Chunks) /\ IsInjective(exact)
  /\ epc = "substring" =>
       /\ ~wanted.decay => Len(exact) < wanted.limit
       /\ Len(exact) < wanted.limit => matched \cap wanted.fts \subseteq Range(exact)
  /\ epc = "done" =>
       (Len(exact) < wanted.limit => matched \subseteq Range(exact))

LEMMA ExactInitInv == SearchInit => ExactInv
<1> SUFFICES ASSUME SearchInit PROVE ExactInv
  OBVIOUS
<1>1. epc = "fts" /\ matched = Matches(wanted.fts \cup wanted.sub)
  BY DEF SearchInit, ExactInit
<1>2. ASSUME search = "exact" PROVE Wanted
  <2>1. wanted \in ExactInputs
    BY <1>2 DEF SearchInit, ExactInit
  <2>2. QED
    BY <2>1, ExactSearchAssumption DEF ExactInputs, Wanted
<1>3. QED
  BY <1>1, <1>2 DEF ExactInv

(* The first query: fewer rows than its limit are all there are.           *)
LEMMA FTSFinds ==
  ASSUME ExactInv, search = "exact", ExactFTS, UNCHANGED <<tables, search>>
  PROVE  ExactInv'
<1> DEFINE A == Matches(wanted.fts)
           all == Ascending(A)
           n == IF wanted.decay THEN 5 * wanted.limit ELSE wanted.limit
<1>1. A \in SUBSET Int /\ IsFiniteSet(A) /\ A \subseteq Chunks
  <2>1. A \in SUBSET Chunks /\ Chunks \subseteq Nat /\ IsFiniteSet(Chunks)
    BY Ids DEF Matches, Visible
  <2> HIDE DEF A
  <2>2. IsFiniteSet(A)
    BY <2>1, FS_Subset
  <2>3. QED
    BY <2>1, <2>2
<1>2. Wanted
  BY DEF ExactInv
<1>3. n \in Nat /\ wanted.limit <= n /\ (~wanted.decay => n = wanted.limit) /\ wanted.limit \in Nat
  BY <1>2 DEF Wanted
<1>4. exact' = First(n, all)
  BY DEF ExactFTS
<1> HIDE DEF A, all, n
<1>5. Lists(all, A)
  BY <1>1, AscendingLists DEF all
<1>6. all \in Seq(Chunks) /\ IsInjective(all) /\ Range(all) = A
  <2>1. all \in Seq(A) /\ IsInjective(all) /\ Range(all) = A
    BY <1>5 DEF Lists
  <2>2. QED
    BY <1>1, <2>1, SeqMonotonic
<1>7. /\ exact' \in Seq(Chunks) /\ IsInjective(exact')
      /\ Len(exact') = (IF n < Len(all) THEN n ELSE Len(all)) /\ Len(all) \in Nat
      /\ Len(all) <= n => exact' = all
  BY <1>3, <1>4, <1>6, FirstIsPrefix
<1>8. /\ wanted' = wanted /\ matched' = matched /\ stored' = stored
      /\ epc' = IF ~wanted.decay /\ Len(exact') >= wanted.limit THEN "done" ELSE "substring"
  BY DEF ExactFTS, tables
<1>9. ASSUME Len(exact') < wanted.limit PROVE matched \cap wanted.fts \subseteq Range(exact')
  <2>1. exact' = all
    BY <1>3, <1>7, <1>9
  <2>2. matched \cap wanted.fts \subseteq A
    BY DEF ExactInv, Matches, A
  <2>3. QED
    BY <1>6, <2>1, <2>2
<1>10. matched' \subseteq Matches(wanted.fts \cup wanted.sub)'
  BY <1>8 DEF ExactInv, Matches, Visible
<1>11. Wanted'
  BY <1>2, <1>8 DEF Wanted
<1>12. Len(exact') \in Nat
  BY <1>3, <1>7
<1>13. CASE ~wanted.decay /\ Len(exact') >= wanted.limit
  <2>1. epc' = "done" /\ ~(Len(exact') < wanted.limit)
    BY <1>3, <1>8, <1>12, <1>13
  <2>2. QED
    BY <1>7, <1>8, <1>10, <1>11, <2>1 DEF ExactInv
<1>14. CASE ~(~wanted.decay /\ Len(exact') >= wanted.limit)
  <2>1. epc' = "substring" /\ (~wanted.decay => Len(exact') < wanted.limit)
    BY <1>3, <1>8, <1>12, <1>14
  <2>2. QED
    BY <1>7, <1>8, <1>9, <1>10, <1>11, <2>1 DEF ExactInv
<1>15. QED
  BY <1>13, <1>14

(* The scan fills up what is missing, with new rows, or finds all of them. *)
LEMMA FallbackFills ==
  ASSUME ExactInv, search = "exact", epc = "substring"
  PROVE  /\ Fallback \in Seq(Chunks) /\ IsInjective(Fallback)
         /\ Range(Fallback) \cap Range(exact) = {}
         /\ Len(exact) + Len(Fallback) < wanted.limit =>
              Matches(wanted.sub) \subseteq Range(exact) \cup Range(Fallback)
<1> DEFINE B == Matches(wanted.sub)
           fresh == Filtered(First(ScanLimit, Ascending(B)), Chunks \ Range(exact))
           l == wanted.limit
           k == Len(exact)
<1>1. B \in SUBSET Chunks
  BY DEF Matches, Visible
<1>2. l \in Nat /\ wanted.decay \in BOOLEAN
  BY DEF ExactInv, Wanted
<1>3. exact \in Seq(Chunks) /\ IsInjective(exact) /\ k \in Nat /\ (~wanted.decay => k < l)
  BY LenProperties DEF ExactInv
<1>4. /\ Fallback = (IF wanted.decay THEN fresh ELSE First(Missing, fresh))
      /\ Missing = l - k
      /\ ScanLimit = (IF wanted.decay THEN 5 * (5 * l) ELSE (l - k) + k)
  BY DEF Fallback, Missing, ScanLimit
<1> HIDE DEF B, l, k
<1>5. ScanLimit \in Nat /\ l <= ScanLimit
  BY <1>2, <1>3, <1>4
<1>6. /\ fresh \in Seq(Chunks) /\ IsInjective(fresh)
      /\ Range(fresh) \cap Range(exact) = {}
      /\ Len(fresh) + k < ScanLimit => B \subseteq Range(exact) \cup Range(fresh)
  <2>1. NewRows(fresh, exact, B, ScanLimit)
    BY <1>1, <1>3, <1>5, FreshRows
  <2>2. QED
    BY <2>1 DEF NewRows, k
<1> HIDE DEF fresh
<1>7. Len(fresh) \in Nat
  BY <1>6, LenProperties
<1>8. CASE wanted.decay
  <2>1. Fallback = fresh
    BY <1>4, <1>8
  <2>2. k + Len(fresh) < l => Len(fresh) + k < ScanLimit
    BY <1>2, <1>3, <1>5, <1>7
  <2>3. QED
    BY <1>6, <2>1, <2>2 DEF B, l, k
<1>9. CASE ~wanted.decay
  <2>1. Fallback = First(Missing, fresh) /\ Missing \in Nat
    BY <1>2, <1>3, <1>4, <1>9
  <2>2. /\ Fallback \in Seq(Chunks) /\ IsInjective(Fallback)
        /\ Range(Fallback) \subseteq Range(fresh)
        /\ Len(Fallback) = (IF Missing < Len(fresh) THEN Missing ELSE Len(fresh))
        /\ Len(fresh) <= Missing => Fallback = fresh
    BY <1>6, <2>1, FirstIsPrefix
  <2>3. ASSUME k + Len(Fallback) < l PROVE Fallback = fresh /\ Len(fresh) + k < ScanLimit
    <3>1. Len(Fallback) \in Nat
      BY <1>7, <2>1, <2>2
    <3>2. Len(Fallback) < Missing
      BY <1>2, <1>3, <1>4, <2>3, <3>1
    <3>3. Len(fresh) <= Missing
      BY <1>7, <2>1, <2>2, <3>2
    <3>4. Fallback = fresh
      BY <2>2, <3>3
    <3>5. QED
      BY <1>2, <1>3, <1>5, <1>7, <2>3, <3>4
  <2>4. Range(Fallback) \cap Range(exact) = {}
    BY <1>6, <2>2
  <2>5. QED
    BY <1>6, <2>2, <2>3, <2>4 DEF B, l, k
<1>10. QED
  BY <1>8, <1>9

(* The second query: the answer is full, or both queries found all there   *)
(* is.                                                                     *)
LEMMA SubstringFinds ==
  ASSUME ExactInv, search = "exact", ExactSubstring, UNCHANGED <<tables, search>>
  PROVE  ExactInv'
<1> DEFINE c == exact \o Fallback
           l == wanted.limit
<1>1. epc = "substring" /\ epc' = "done" /\ wanted' = wanted /\ matched' = matched
      /\ stored' = stored
  BY DEF ExactSubstring, tables
<1>2. /\ Fallback \in Seq(Chunks) /\ IsInjective(Fallback)
      /\ Range(Fallback) \cap Range(exact) = {}
      /\ Len(exact) + Len(Fallback) < l =>
           Matches(wanted.sub) \subseteq Range(exact) \cup Range(Fallback)
  BY <1>1, FallbackFills
<1>3. Wanted /\ exact \in Seq(Chunks) /\ IsInjective(exact) /\ l \in Nat
  BY <1>1 DEF ExactInv, Wanted
<1>4. PICK s : /\ s \in Seq(Chunks) /\ IsInjective(s) /\ Range(s) = Range(c) /\ Len(s) = Len(c)
               /\ exact' = First(l, s)
  <2>1. c \in Seq(Chunks) /\ IsInjective(c)
    BY <1>2, <1>3, JoinedLists
  <2>2. CASE wanted.decay
    <3>1. PICK order \in SetToSeqs(DOMAIN c) :
            exact' = First(l, [i \in DOMAIN c |-> c[order[i]]])
      BY <2>2 DEF ExactSubstring
    <3> DEFINE p == [i \in DOMAIN c |-> c[order[i]]]
    <3> HIDE DEF c
    <3>2. p \in Seq(Chunks) /\ IsInjective(p) /\ Range(p) = Range(c) /\ Len(p) = Len(c)
      BY <2>1, SortedLists
    <3>3. QED
      BY <3>1, <3>2
  <2>3. CASE ~wanted.decay
    <3>1. exact' = First(l, c)
      BY <2>3 DEF ExactSubstring
    <3>2. QED
      BY <2>1, <3>1
  <2>4. QED
    BY <2>2, <2>3
<1>5. /\ Range(c) = Range(exact) \cup Range(Fallback)
      /\ Len(c) = Len(exact) + Len(Fallback) /\ Len(exact) \in Nat /\ Len(Fallback) \in Nat
  BY <1>2, <1>3, JoinedLists
<1> HIDE DEF c, l
<1>6. /\ exact' \in Seq(Chunks) /\ IsInjective(exact')
      /\ Len(exact') = (IF l < Len(s) THEN l ELSE Len(s)) /\ Len(s) \in Nat
      /\ Len(s) <= l => exact' = s
  BY <1>3, <1>4, FirstIsPrefix
<1>7. ASSUME Len(exact') < l PROVE matched \subseteq Range(exact')
  <2>1. Len(s) < l /\ exact' = s
    BY <1>3, <1>6, <1>7
  <2>2. Len(exact) + Len(Fallback) < l /\ Len(exact) < l
    BY <1>3, <1>4, <1>5, <2>1
  <2>3. matched \cap wanted.fts \subseteq Range(exact)
    BY <1>1, <2>2 DEF ExactInv, l
  <2>4. Matches(wanted.sub) \subseteq Range(exact) \cup Range(Fallback)
    BY <1>2, <2>2
  <2>5. matched \subseteq wanted.fts \cup Matches(wanted.sub)
    BY DEF ExactInv, Matches
  <2>6. QED
    BY <1>4, <1>5, <2>1, <2>3, <2>4, <2>5
<1>8. Wanted' /\ matched' \subseteq Matches(wanted.fts \cup wanted.sub)'
  BY <1>1, <1>3 DEF Wanted, ExactInv, Matches, Visible
<1>9. QED
  BY <1>1, <1>6, <1>7, <1>8 DEF ExactInv, l

LEMMA ExactStep ==
  ASSUME TablesInv, ExactInv, [SearchNext]_searchVars
  PROVE  ExactInv'
<1>1. stored \subseteq stored' /\ search' = search
  BY TablesStep DEF SearchNext, searchVars
<1>2. ASSUME UNCHANGED exactVars PROVE ExactInv'
  <2>1. wanted' = wanted /\ epc' = epc /\ exact' = exact /\ matched' = matched
    BY <1>2 DEF exactVars
  <2>2. matched' \subseteq Matches(wanted.fts \cup wanted.sub)'
    BY <1>1, <2>1 DEF ExactInv, Matches, Visible
  <2>3. Wanted' <=> Wanted
    BY <2>1 DEF Wanted
  <2>4. QED
    BY <1>1, <2>1, <2>2, <2>3 DEF ExactInv
<1>3. ASSUME search = "exact", Exact, UNCHANGED <<tables, search>> PROVE ExactInv'
  BY <1>3, FTSFinds, SubstringFinds DEF Exact
<1>4. QED
  BY <1>2, <1>3 DEF SearchNext, searchVars

(* For any matches, limits and memories stored between the two queries:    *)
(* ExactSearch shows no chunk twice, and leaves none out that matched when *)
(* it started unless the answer is full.                                   *)
THEOREM ExactAnswerComplete == SearchSpec => []ExactComplete
<1> DEFINE I == TablesInv /\ ExactInv
<1>1. SearchInit => I
  BY TablesInitInv, ExactInitInv
<1>2. I /\ [SearchNext]_searchVars => I'
  BY TablesStep, ExactStep
<1>3. I => ExactComplete
  <2>1. ASSUME ExactInv, epc = "done" PROVE Cardinality(Range(exact)) = Len(exact)
    <3>1. exact \in Seq(Chunks) /\ IsInjective(exact)
      BY <2>1 DEF ExactInv
    <3>2. Lists(exact, Range(exact))
      BY <3>1, InjectiveLists
    <3>3. QED
      BY <3>2 DEF Lists
  <2>2. QED
    BY <2>1 DEF ExactInv, ExactComplete
<1> HIDE DEF I
<1>4. QED
  BY <1>1, <1>2, <1>3, PTL DEF SearchSpec

-----------------------------------------------------------------------------
(***************************************************************************)
(* The types of what the searches hold.                                    *)
(***************************************************************************)
(* Memories are stored in the order of their ids, so that what a stored    *)
(* memory replaces is stored.                                              *)
TablesTypes == (\E n \in Nat : stored = 1..n) /\ edges \subseteq Graph

FuzzyTypes ==
  /\ request \in [limit : Limits, project : Projects, recency : BOOLEAN]
  /\ lexical \in Seq(Chunks) /\ IsInjective(lexical) /\ Len(lexical) <= 2 * request.limit
  /\ vector \in Seq(Chunks) /\ IsInjective(vector)
  /\ vectorAvailable \in BOOLEAN
  /\ \A m \in DOMAIN found :
       /\ found[m].score \in 0..One /\ found[m].superseded \in BOOLEAN
       /\ found[m].highlights \in Seq(Chunks) /\ Len(found[m].highlights) <= 3
  /\ candidates \in Seq(Memories)
  /\ Len(results) <= request.limit

ExactTypes ==
  /\ wanted \in ExactInputs
  /\ epc = "fts" => exact = <<>>
  /\ Range(exact) \subseteq wanted.fts \cup wanted.sub
  /\ epc = "done" => Len(exact) <= wanted.limit

TraceTypes ==
  /\ asked \in TraceInputs
  /\ tpc = "nodes" => selected = <<>> /\ before = {}
  /\ Len(selected) <= asked.nodes
  /\ truncated \in BOOLEAN
  /\ traced \subseteq edges

SearchTypes == TablesTypes /\ FuzzyTypes /\ ExactTypes /\ TraceTypes

SearchInv == FuzzyInv /\ ExactInv /\ TraceInv /\ SearchTypes

-----------------------------------------------------------------------------
(* The invariants of the searches and the types of what they hold make up  *)
(* the type invariant.                                                     *)
LEMMA TypesSuffice == SearchInv => SearchTypeOK
<1> SUFFICES ASSUME SearchInv PROVE SearchTypeOK
  OBVIOUS
<1> USE DEF SearchInv, SearchTypes
<1>1. TablesTypeOK
  <2>1. PICK n \in Nat : stored = 1..n
    BY DEF TablesTypes
  <2>2. stored \subseteq Memories /\ vectors \subseteq Chunks
        /\ superseded = {Replaces[m] : m \in stored} \ {0}
    BY DEF FuzzyInv, TablesInv
  <2>3. ASSUME NEW m \in stored, Replaces[m] # 0 PROVE Replaces[m] \in stored
    <3>1. m \in DOMAIN Replaces
      BY <2>2, SearchTablesAssumption DEF Memories
    <3>2. Replaces[m] \in 0..m - 1
      BY <3>1, SearchTablesAssumption
    <3>3. QED
      BY <2>1, <2>3, <3>2
  <2>4. superseded \subseteq stored
    BY <2>2, <2>3
  <2>5. QED
    BY <2>2, <2>4 DEF TablesTypes, TablesTypeOK
<1>2. FuzzyTypeOK
  <2>1. FuzzyTypes /\ FuzzyBase
    BY DEF FuzzyInv
  <2>2. Range(lexical) \subseteq Chunks /\ Range(vector) \subseteq Chunks
        /\ Range(candidates) \subseteq Memories
    BY <2>1, RangeOfSeq DEF FuzzyTypes
  <2>3. \A m \in DOMAIN found : Range(found[m].highlights) \subseteq Chunks
    BY <2>1, RangeOfSeq DEF FuzzyTypes
  <2>4. QED
    BY <2>1, <2>2, <2>3 DEF FuzzyTypes, FuzzyBase, FuzzyTypeOK
<1>3. ExactTypeOK
  BY DEF ExactTypes, ExactInv, ExactTypeOK, Matches, Visible
<1>4. TraceTypeOK
  <2>1. TraceTypes /\ TraceInv /\ edges \subseteq Graph
    BY DEF TablesTypes
  <2>2. selected \in Seq(Nodes) /\ before \subseteq Graph
    <3>1. <<>> \in Seq(Nodes)
      BY EmptySeq
    <3>2. QED
      BY <2>1, <3>1 DEF TraceTypes, TraceInv
  <2>3. Range(selected) \subseteq Nodes
    BY <2>2, RangeOfSeq
  <2>4. QED
    BY <2>1, <2>2, <2>3 DEF TraceTypes, TraceInv, TraceTypeOK
<1>5. QED
  BY <1>1, <1>2, <1>3, <1>4 DEF SearchTypeOK

LEMMA PickOne == ASSUME NEW S, S # {} PROVE Pick(S) \subseteq S
BY DEF Pick

LEMMA InitTypes == SearchInit => SearchTypes
<1> SUFFICES ASSUME SearchInit PROVE SearchTypes
  OBVIOUS
<1>1. TablesTypes
  <2>1. (\E n \in {0} \cup Memories : stored = 1..n) /\ edges \subseteq Graph
    BY DEF SearchInit
  <2>2. Memories \subseteq Nat
    BY Ids
  <2>3. QED
    BY <2>1, <2>2 DEF TablesTypes
<1>2. FuzzyTypes
  <2>1. FuzzyInputs # {}
    <3>1. PICK l, s, d : l \in Limits /\ s \in LexicalOrders /\ d \in NearestOrders
      BY FuzzySearchAssumption
    <3> DEFINE r == [limit |-> l, project |-> AnyProject, recency |-> TRUE]
    <3>2. r \in [limit : Limits, project : Projects, recency : BOOLEAN]
      BY <3>1 DEF Projects
    <3> HIDE DEF r
    <3>3. <<r, s, d>> \in FuzzyInputs
      BY <3>1, <3>2 DEF FuzzyInputs
    <3>4. QED
      BY <3>3
  <2>2. PICK i \in FuzzyInputs : request = i[1]
    BY <2>1, PickOne DEF SearchInit, FuzzyInit
  <2>3. request \in [limit : Limits, project : Projects, recency : BOOLEAN]
    BY <2>2 DEF FuzzyInputs
  <2>4. request.limit \in Nat
    BY <2>3, FuzzySearchAssumption
  <2>5. /\ lexical = <<>> /\ vector = <<>> /\ vectorAvailable = FALSE
        /\ found = <<>> /\ candidates = <<>> /\ results = <<>>
    BY DEF SearchInit, FuzzyInit, FuzzyBlank
  <2>6. /\ <<>> \in Seq(Chunks) /\ <<>> \in Seq(Memories) /\ Len(<<>>) = 0
        /\ DOMAIN <<>> = {}
    BY EmptySeq
  <2>7. IsInjective(<<>>)
    BY <2>6 DEF IsInjective
  <2>8. Len(<<>>) <= 2 * request.limit /\ Len(<<>>) <= request.limit
    BY <2>4, <2>6
  <2>9. QED
    BY <2>3, <2>5, <2>6, <2>7, <2>8 DEF FuzzyTypes
<1>3. ExactTypes
  <2>1. ExactInputs # {}
    <3>1. PICK l, s, d : l \in ExactLimits /\ s \in FullText /\ d \in Containing
      BY ExactSearchAssumption
    <3>2. [limit |-> l, project |-> AnyProject, decay |-> TRUE, fts |-> s, sub |-> d] \in ExactInputs
      BY <3>1 DEF ExactInputs
    <3>3. QED
      BY <3>2
  <2>2. wanted \in ExactInputs
    BY <2>1, PickOne DEF SearchInit, ExactInit
  <2>3. epc = "fts" /\ exact = <<>>
    BY DEF SearchInit, ExactInit
  <2>4. Range(<<>>) = {}
    BY DEF Range
  <2>5. QED
    BY <2>2, <2>3, <2>4 DEF ExactTypes
<1>4. TraceTypes
  <2>1. TraceInputs # {}
    <3>1. PICK l, s, d : l \in Roots /\ s \in Depths /\ d \in NodeCaps
      BY TraceAssumption
    <3>2. [roots |-> l, direction |-> "both", depth |-> s, nodes |-> d] \in TraceInputs
      BY <3>1 DEF TraceInputs
    <3>3. QED
      BY <3>2
  <2>2. asked \in TraceInputs
    BY <2>1, PickOne DEF SearchInit, TraceInit
  <2>3. asked.nodes \in Nat
    BY <2>2, TraceAssumption DEF TraceInputs
  <2>4. /\ tpc = "nodes" /\ selected = <<>> /\ truncated = FALSE
        /\ traced = {} /\ before = {} /\ Len(<<>>) = 0
    BY DEF SearchInit, TraceInit, TraceBlank
  <2>5. Len(selected) <= asked.nodes
    BY <2>3, <2>4
  <2>6. QED
    BY <2>2, <2>4, <2>5 DEF TraceTypes
<1>5. QED
  BY <1>1, <1>2, <1>3, <1>4 DEF SearchTypes

-----------------------------------------------------------------------------
LEMMA TablesTypesStep ==
  ASSUME TablesTypes, [SearchNext]_searchVars
  PROVE  TablesTypes'
<1>1. CASE StoreMemory
  <2>1. PICK m \in Memories : stored = 1..m - 1 /\ stored' = stored \cup {m} /\ edges' = edges
    BY <1>1 DEF StoreMemory
  <2>2. m \in Nat /\ stored' = 1..m
    BY <2>1, Ids
  <2>3. QED
    BY <2>1, <2>2 DEF TablesTypes
<1>2. CASE EmbedChunk
  BY <1>2 DEF EmbedChunk, TablesTypes
<1>3. CASE AddEdge
  BY <1>3 DEF AddEdge, TablesTypes
<1>4. CASE UNCHANGED tables
  BY <1>4 DEF tables, TablesTypes
<1>5. QED
  BY <1>1, <1>2, <1>3, <1>4 DEF SearchNext, searchVars

(* Fusion shows a chunk once.                                              *)
LEMMA FusedIsList ==
  ASSUME Gathered, NEW n \in Nat, NEW fused \in RRF(n)
  PROVE  fused \in Seq(Chunks) /\ IsInjective(fused)
<1> DEFINE S == Range(lexical) \cup Range(vector)
<1>1. S \in SUBSET Chunks
  BY RangeOfSeq DEF Gathered
<1>2. PICK s \in SetToSeqs(S) : fused = First(n, s)
  BY DEF RRF, Sorted
<1> HIDE DEF S
<1>3. IsFiniteSet(S)
  BY <1>1, Ids, FS_Subset
<1>4. s \in Seq(S) /\ IsInjective(s)
  BY <1>3, SetToSeqsLists DEF Lists
<1>5. fused \in Seq(S) /\ IsInjective(fused)
  BY <1>2, <1>4, FirstIsPrefix
<1>6. S \subseteq Chunks
  BY <1>1
<1>7. QED
  BY <1>5, <1>6, SeqMonotonic

(* LIMIT.                                                                  *)
LEMMA CutLength ==
  ASSUME NEW T, NEW s \in Seq(T), NEW n \in Nat
  PROVE  Len(First(n, s)) <= n
<1> DEFINE k == Len(s)
           l == Len(First(n, s))
<1>1. k \in Nat /\ l = IF n < k THEN n ELSE k
  BY FirstIsPrefix
<1> HIDE DEF k, l
<1>2. l <= n
  BY <1>1
<1>3. QED
  BY <1>2 DEF l

LEMMA FuzzyLimit == FuzzyTypes => request.limit \in Nat \ {0}
BY FuzzySearchAssumption DEF FuzzyTypes

LEMMA LexicalTypes ==
  ASSUME FuzzyInv, FuzzyTypes, search = "fuzzy", LexicalSearch
  PROVE  FuzzyTypes'
<1> DEFINE f == Filtered(byRank, Visible(request.project))
<1>1. f \in Seq(Chunks) /\ IsInjective(f)
  BY FilteredLists DEF FuzzyInv, FuzzyBase, Requested
<1>2. request.limit \in Nat /\ 2 * request.limit \in Nat
  BY FuzzyLimit
<1>3. lexical' = First(2 * request.limit, f)
  BY DEF LexicalSearch
<1> HIDE DEF f
<1>4. lexical' \in Seq(Chunks) /\ IsInjective(lexical')
  BY <1>1, <1>2, <1>3, FirstIsPrefix
<1>5. Len(lexical') <= 2 * request.limit
  BY <1>1, <1>2, <1>3, CutLength
<1>6. UNCHANGED <<request, vector, vectorAvailable, found, candidates, results>>
  BY DEF LexicalSearch, inputs
<1>7. QED
  BY <1>4, <1>5, <1>6 DEF FuzzyTypes

LEMMA VectorTypes ==
  ASSUME FuzzyInv, FuzzyTypes, search = "fuzzy", VectorSearch, UNCHANGED tables
  PROVE  FuzzyTypes'
<1> DEFINE f == Filtered(byDistance, vectors)
           limit == 2 * request.limit
           near == First(10 * limit, f)
           S == Range(near) \cap Visible(request.project)
<1>1. vector' \in Seq(Chunks)
  <2>1. Gathered'
    BY VectorGathers DEF FuzzyInv
  <2>2. QED
    BY <2>1 DEF Gathered
<1>2. f \in Seq(Chunks) /\ IsInjective(f)
  BY FilteredLists DEF FuzzyInv, FuzzyBase, Requested
<1>3. limit \in Nat
  BY FuzzyLimit
<1>4. vector' = IF request.project = AnyProject THEN First(limit, f) ELSE Ascending(S)
  BY DEF VectorSearch
<1>5. S \in SUBSET Int /\ IsFiniteSet(S)
  <2>1. S \in SUBSET Chunks /\ Chunks \subseteq Nat /\ IsFiniteSet(Chunks)
    BY Ids DEF Visible
  <2> HIDE DEF S
  <2>2. IsFiniteSet(S)
    BY <2>1, FS_Subset
  <2>3. QED
    BY <2>1, <2>2
<1> HIDE DEF f, limit, S
<1>6. IsInjective(First(limit, f))
  BY <1>2, <1>3, FirstIsPrefix
<1>7. IsInjective(Ascending(S))
  <2>1. Lists(Ascending(S), S)
    BY <1>5, AscendingLists
  <2>2. QED
    BY <2>1 DEF Lists
<1>8. IsInjective(vector')
  BY <1>4, <1>6, <1>7
<1>9. UNCHANGED <<request, lexical, found, candidates, results>> /\ vectorAvailable' = TRUE
  BY DEF VectorSearch, inputs
<1>10. QED
  BY <1>1, <1>8, <1>9 DEF FuzzyTypes

LEMMA LookupTypes ==
  ASSUME FuzzyInv, FuzzyTypes, search = "fuzzy", Lookup
  PROVE  FuzzyTypes'
<1>1. 2 * request.limit \in Nat
  BY FuzzyLimit
<1>2. PICK fused \in RRF(2 * request.limit) :
         found' = [m \in {Owner[c] : c \in Range(fused)} |->
                     [score      |-> Decayed(Fused(Of(m, fused)[1]), m),
                      superseded |-> Status(m),
                      highlights |-> First(3, Of(m, fused))]]
  BY DEF Lookup
<1>3. fused \in Seq(Chunks) /\ IsInjective(fused)
  BY <1>1, FusedIsList DEF FuzzyInv, FuzzyBase
<1>4. ASSUME NEW m \in DOMAIN found'
      PROVE  /\ found'[m].score \in 0..One /\ found'[m].superseded \in BOOLEAN
             /\ found'[m].highlights \in Seq(Chunks) /\ Len(found'[m].highlights) <= 3
  <2>1. found'[m].highlights = First(3, Of(m, fused)) /\ found'[m].superseded = (m \in superseded)
    BY <1>2 DEF Status
  <2>2. found'[m].score \in Nat /\ found'[m].score < One
    BY LookupFinds DEF FuzzyInv
  <2>3. found'[m].score \in 0..One
    BY <2>2, BoostBelowOne
  <2>4. Of(m, fused) \in Seq(Chunks)
    BY <1>3, FilteredLists DEF Of
  <2>5. First(3, Of(m, fused)) \in Seq(Chunks)
    BY <2>4, FirstIsPrefix
  <2>6. Len(First(3, Of(m, fused))) <= 3
    BY <2>4, CutLength
  <2>7. QED
    BY <2>1, <2>3, <2>5, <2>6
<1>5. UNCHANGED <<request, lexical, vector, vectorAvailable, candidates, results>>
  BY DEF Lookup, inputs
<1>6. QED
  BY <1>4, <1>5 DEF FuzzyTypes

(* A candidate has a first chunk.                                          *)
LEMMA FirstChunk ==
  ASSUME NEW m \in Range(Newest), FuzzyInv, FuzzyTypes
  PROVE  (CHOOSE c \in Chunks : Owner[c] = m /\ \A d \in Chunks : Owner[d] = m => c <= d) \in Chunks
<1> DEFINE current == {k \in stored \cap OnTopic \cap Range(Owner) :
                         k \notin superseded /\ request.project \in {AnyProject, Project[k]}}
           S == {c \in Chunks : Owner[c] = m}
<1>1. m \in Range(Owner)
  <2>1. Newest = First(request.limit, Descending(current))
    BY DEF Newest
  <2>2. current \in SUBSET Int /\ IsFiniteSet(current) /\ current \subseteq Range(Owner)
    <3>1. current \in SUBSET Memories /\ Memories \subseteq Nat /\ IsFiniteSet(Memories)
      BY Ids DEF FuzzyInv, TablesInv
    <3>2. current \subseteq Range(Owner)
      OBVIOUS
    <3> HIDE DEF current
    <3>3. IsFiniteSet(current)
      BY <3>1, FS_Subset
    <3>4. QED
      BY <3>1, <3>2, <3>3
  <2> HIDE DEF current
  <2>3. Descending(current) \in Seq(current) /\ Range(Descending(current)) = current
    <3>1. Lists(Descending(current), current)
      BY <2>2, DescendingLists
    <3>2. QED
      BY <3>1 DEF Lists
  <2>4. Range(Newest) \subseteq current
    BY <2>1, <2>3, FuzzyLimit, FirstIsPrefix
  <2>5. QED
    BY <2>2, <2>4
<1>2. S # {} /\ S \in SUBSET Chunks
  BY <1>1 DEF Range, Chunks
<1>3. S \in SUBSET Int /\ IsFiniteSet(S)
  <2>1. Chunks \subseteq Nat /\ IsFiniteSet(Chunks)
    BY Ids
  <2> HIDE DEF S
  <2>2. IsFiniteSet(S)
    BY <1>2, <2>1, FS_Subset
  <2>3. QED
    BY <1>2, <2>1, <2>2
<1>4. \E c \in S : \A d \in S : c <= d
  <2> HIDE DEF S
  <2>1. QED
    BY <1>2, <1>3, HasLeast
<1>5. \E c \in Chunks : Owner[c] = m /\ \A d \in Chunks : Owner[d] = m => c <= d
  BY <1>4
<1>6. QED
  BY <1>5

LEMMA RecencyTypes ==
  ASSUME FuzzyInv, FuzzyTypes, search = "fuzzy", Recency
  PROVE  FuzzyTypes'
<1> DEFINE old(m) == IF m \in DOMAIN found THEN found[m]
                     ELSE [score |-> 0, superseded |-> FALSE, highlights |-> <<>>]
           at(m) == CHOOSE i \in DOMAIN Newest : Newest[i] = m
           chunk(m) == CHOOSE c \in Chunks : Owner[c] = m /\ \A d \in Chunks :
                                               Owner[d] = m => c <= d
           Fits(e) == /\ e.score \in 0..One /\ e.superseded \in BOOLEAN
                      /\ e.highlights \in Seq(Chunks) /\ Len(e.highlights) <= 3
<1>1. /\ candidates' = Newest
      /\ found' = [m \in DOMAIN found \cup Range(Newest) |->
                     IF m \notin Range(Newest) THEN old(m)
                     ELSE Merged(m, old(m), at(m), chunk(m))]
  BY DEF Recency
<1>2. ASSUME NEW m PROVE Fits(old(m))
  <2>1. CASE m \in DOMAIN found
    <3>1. old(m) = found[m]
      BY <2>1
    <3> HIDE DEF old
    <3>2. QED
      BY <2>1, <3>1 DEF FuzzyTypes
  <2>2. CASE m \notin DOMAIN found
    <3>1. old(m).score = 0 /\ old(m).superseded = FALSE /\ old(m).highlights = <<>>
      BY <2>2
    <3>2. 0 \in 0..One /\ <<>> \in Seq(Chunks) /\ Len(<<>>) = 0
      BY EmptySeq, BoostBelowOne
    <3> HIDE DEF old
    <3>3. old(m).score \in 0..One /\ old(m).superseded \in BOOLEAN
      BY <3>1, <3>2
    <3>4. old(m).highlights \in Seq(Chunks) /\ Len(old(m).highlights) = 0
      BY <3>1, <3>2, Zenon
    <3>5. QED
      BY <3>3, <3>4
  <2>3. QED
    BY <2>1, <2>2
<1>3. Newest \in Seq(Memories) /\ DOMAIN Newest = 1..Len(Newest)
  BY NewestIsList DEF FuzzyInv, FuzzyBase
<1>4. \A m \in Range(Newest) : at(m) \in DOMAIN Newest
  BY DEF Range
<1>5. \A m \in Range(Newest) : chunk(m) \in Chunks
  BY FirstChunk
<1> HIDE DEF old, at, chunk
<1>6. ASSUME NEW m \in Range(Newest) PROVE Fits(Merged(m, old(m), at(m), chunk(m)))
  <2> DEFINE b == Boost(at(m))
             o == old(m).score
             h == Append(old(m).highlights, chunk(m))
  <2>1. b \in Int /\ b <= One /\ One \in Nat
    <3>1. at(m) \in Nat /\ at(m) >= 1
      BY <1>3, <1>4, LenProperties
    <3>2. at(m) = 1 \/ at(m) > 1
      BY <3>1
    <3>3. QED
      BY <3>1, <3>2, BoostBelowOne
  <2>2. o \in 0..One /\ h \in Seq(Chunks)
    BY <1>2, <1>5, AppendProperties
  <2>3. /\ Merged(m, old(m), at(m), chunk(m)).score = IF b > o THEN b ELSE o
        /\ Merged(m, old(m), at(m), chunk(m)).superseded = FALSE
        /\ Merged(m, old(m), at(m), chunk(m)).highlights = First(3, h)
    BY DEF Merged
  <2> HIDE DEF b, o, h
  <2>4. (IF b > o THEN b ELSE o) \in 0..One
    BY <2>1, <2>2
  <2>5. First(3, h) \in Seq(Chunks) /\ Len(First(3, h)) <= 3
    BY <2>2, FirstIsPrefix, CutLength
  <2>6. QED
    BY <2>3, <2>4, <2>5
<1>7. ASSUME NEW m \in DOMAIN found' PROVE Fits(found'[m])
  <2>1. found'[m] = IF m \notin Range(Newest) THEN old(m)
                    ELSE Merged(m, old(m), at(m), chunk(m))
    BY <1>1
  <2> HIDE DEF Fits
  <2>2. CASE m \in Range(Newest)
    BY <1>6, <2>1, <2>2
  <2>3. CASE m \notin Range(Newest)
    BY <1>2, <2>1, <2>3
  <2>4. QED
    BY <2>2, <2>3
<1>8. UNCHANGED <<request, lexical, vector, vectorAvailable, results>>
  BY DEF Recency, inputs
<1>9. candidates' \in Seq(Memories)
  BY <1>1, <1>3
<1>10. QED
  BY <1>7, <1>8, <1>9 DEF FuzzyTypes

LEMMA CoverageTypes ==
  ASSUME FuzzyInv, FuzzyTypes, search = "fuzzy", Coverage
  PROVE  FuzzyTypes'
<1>1. PICK s \in SetToSeqs(DOMAIN found) :
         results' = [i \in DOMAIN First(request.limit, s) |->
                       [memory     |-> s[i],
                        superseded |-> found[s[i]].superseded,
                        coverage   |-> Covered(s[i])]]
  BY DEF Coverage, Sorted
<1>2. IsFiniteSet(DOMAIN found)
  <2>1. DOMAIN found \in SUBSET Memories /\ IsFiniteSet(Memories)
    BY Ids DEF FuzzyInv, FuzzyBase
  <2>2. QED
    BY <2>1, FS_Subset
<1>3. s \in Seq(DOMAIN found)
  BY <1>2, SetToSeqsLists DEF Lists
<1> DEFINE f == First(request.limit, s)
           k == Len(f)
<1>4. f \in Seq(DOMAIN found) /\ DOMAIN f = 1..k /\ k \in Nat /\ k <= request.limit
  BY <1>3, FuzzyLimit, FirstIsPrefix, CutLength, LenProperties
<1>5. DOMAIN results' = 1..k /\ Len(results') = k
  <2> HIDE DEF k
  <2>1. \E e : results' = [i \in 1..k |-> e[i]]
    <3> DEFINE e == results'
    <3>1. results' = [i \in 1..k |-> e[i]]
      BY <1>1, <1>4
    <3>2. QED
      BY <3>1
  <2>2. PICK e : results' = [i \in 1..k |-> e[i]]
    BY <2>1
  <2>3. QED
    BY <1>4, <2>2
<1> HIDE DEF k, f
<1>6. Len(results') <= request.limit
  BY <1>4, <1>5
<1>7. UNCHANGED <<request, lexical, vector, vectorAvailable, found, candidates>>
  BY DEF Coverage, inputs
<1>8. QED
  BY <1>6, <1>7 DEF FuzzyTypes

LEMMA FuzzyTypesStep ==
  ASSUME FuzzyInv, FuzzyTypes, [SearchNext]_searchVars
  PROVE  FuzzyTypes'
<1>1. ASSUME UNCHANGED fuzzyVars PROVE FuzzyTypes'
  BY <1>1 DEF fuzzyVars, inputs, FuzzyTypes
<1>2. ASSUME EmbedQuery \/ VectorFails PROVE FuzzyTypes'
  BY <1>2 DEF EmbedQuery, VectorFails, inputs, FuzzyTypes
<1>3. ASSUME search = "fuzzy", Fuzzy, UNCHANGED tables PROVE FuzzyTypes'
  BY <1>2, <1>3, LexicalTypes, VectorTypes, LookupTypes, RecencyTypes, CoverageTypes DEF Fuzzy
<1>4. QED
  BY <1>1, <1>3 DEF SearchNext, searchVars

(* The fallback scan returns matches only.                                 *)
LEMMA FallbackMatches ==
  ASSUME ExactInv, search = "exact", epc = "substring"
  PROVE  Range(Fallback) \subseteq wanted.sub
<1> DEFINE B == Matches(wanted.sub)
           rows == First(ScanLimit, Ascending(B))
           fresh == Filtered(rows, Chunks \ Range(exact))
<1>1. /\ wanted.limit \in Nat /\ wanted.decay \in BOOLEAN /\ Len(exact) \in Nat
      /\ ~wanted.decay => Len(exact) < wanted.limit
  BY LenProperties DEF ExactInv, Wanted
<1>2. ScanLimit \in Nat /\ (~wanted.decay => Missing \in Nat)
  <2> DEFINE k == Len(exact)
             l == wanted.limit
  <2>1. k \in Nat /\ l \in Nat
    BY <1>1
  <2>2. CASE wanted.decay
    <3>1. ScanLimit = 5 * (5 * l)
      BY <2>2 DEF ScanLimit
    <3> HIDE DEF k, l
    <3>2. ScanLimit \in Nat
      BY <2>1, <3>1
    <3>3. QED
      BY <2>2, <3>2
  <2>3. CASE ~wanted.decay
    <3>1. ScanLimit = (l - k) + k /\ Missing = l - k /\ k < l
      BY <1>1, <2>3 DEF ScanLimit, Missing
    <3> HIDE DEF k, l
    <3>2. ScanLimit \in Nat /\ Missing \in Nat
      BY <2>1, <3>1
    <3>3. QED
      BY <3>2
  <2>4. QED
    BY <2>2, <2>3
<1>3. B \in SUBSET Int /\ IsFiniteSet(B) /\ B \subseteq wanted.sub
  <2>1. B \in SUBSET Chunks /\ Chunks \subseteq Nat /\ IsFiniteSet(Chunks) /\ B \subseteq wanted.sub
    BY Ids DEF Matches, Visible
  <2> HIDE DEF B
  <2>2. IsFiniteSet(B)
    BY <2>1, FS_Subset
  <2>3. QED
    BY <2>1, <2>2
<1>4. Fallback = IF wanted.decay THEN fresh ELSE First(Missing, fresh)
  BY DEF Fallback
<1> HIDE DEF B
<1>5. Lists(Ascending(B), B)
  BY <1>3, AscendingLists
<1>6. Ascending(B) \in Seq(B) /\ IsInjective(Ascending(B))
  BY <1>5 DEF Lists
<1>7. rows \in Seq(B) /\ IsInjective(rows)
  BY <1>2, <1>6, FirstIsPrefix
<1> HIDE DEF rows
<1>8. fresh \in Seq(B)
  BY <1>7, FilteredLists
<1> HIDE DEF fresh
<1>9. Fallback \in Seq(B)
  <2>1. CASE wanted.decay
    BY <1>4, <1>8, <2>1
  <2>2. CASE ~wanted.decay
    <3>1. Fallback = First(Missing, fresh) /\ Missing \in Nat
      BY <1>2, <1>4, <2>2
    <3>2. QED
      BY <1>8, <3>1, FirstIsPrefix
  <2>3. QED
    BY <2>1, <2>2
<1>10. QED
  BY <1>3, <1>9, RangeOfSeq

LEMMA ExactTypesStep ==
  ASSUME ExactInv, ExactTypes, [SearchNext]_searchVars
  PROVE  ExactTypes'
<1>1. ASSUME UNCHANGED exactVars PROVE ExactTypes'
  BY <1>1 DEF exactVars, ExactTypes
<1>2. ASSUME search = "exact" PROVE wanted.limit \in Nat /\ wanted.decay \in BOOLEAN
  BY <1>2 DEF ExactInv, Wanted
<1>3. ASSUME search = "exact", ExactFTS, UNCHANGED <<tables, search>> PROVE ExactTypes'
  <2> DEFINE A == Matches(wanted.fts)
             n == IF wanted.decay THEN 5 * wanted.limit ELSE wanted.limit
  <2>1. /\ epc' = IF ~wanted.decay /\ Len(exact') >= wanted.limit THEN "done" ELSE "substring"
        /\ exact' = First(n, Ascending(A)) /\ wanted' = wanted
    BY <1>3 DEF ExactFTS
  <2>2. n \in Nat /\ (~wanted.decay => n = wanted.limit)
    BY <1>2, <1>3
  <2>3. A \in SUBSET Int /\ IsFiniteSet(A) /\ A \subseteq wanted.fts
    <3>1. A \in SUBSET Chunks /\ Chunks \subseteq Nat /\ IsFiniteSet(Chunks) /\ A \subseteq wanted.fts
      BY Ids DEF Matches, Visible
    <3> HIDE DEF A
    <3>2. IsFiniteSet(A)
      BY <3>1, FS_Subset
    <3>3. QED
      BY <3>1, <3>2
  <2> HIDE DEF A, n
  <2>4. Ascending(A) \in Seq(A) /\ Range(Ascending(A)) = A
    <3>1. Lists(Ascending(A), A)
      BY <2>3, AscendingLists
    <3>2. QED
      BY <3>1 DEF Lists
  <2>5. Range(exact') \subseteq A /\ Len(exact') <= n
    BY <2>1, <2>2, <2>4, FirstIsPrefix, CutLength
  <2>6. epc' = "done" => Len(exact') <= wanted.limit
    <3>1. epc' = "done" => ~wanted.decay
      BY <2>1
    <3>2. QED
      BY <2>2, <2>5, <3>1
  <2>7. epc' # "fts"
    BY <2>1
  <2>8. QED
    BY <2>1, <2>3, <2>5, <2>6, <2>7 DEF ExactTypes
<1>4. ASSUME search = "exact", ExactSubstring, UNCHANGED <<tables, search>> PROVE ExactTypes'
  <2> DEFINE c == exact \o Fallback
  <2>1. epc = "substring" /\ epc' = "done" /\ wanted' = wanted
    BY <1>4 DEF ExactSubstring
  <2>2. c \in Seq(Chunks) /\ IsInjective(c) /\ Range(c) = Range(exact) \cup Range(Fallback)
    <3>1. Fallback \in Seq(Chunks) /\ IsInjective(Fallback) /\ Range(Fallback) \cap Range(exact) = {}
      BY <1>4, <2>1, FallbackFills
    <3>2. exact \in Seq(Chunks) /\ IsInjective(exact)
      BY <2>1 DEF ExactInv
    <3>3. QED
      BY <3>1, <3>2, JoinedLists
  <2>3. Range(Fallback) \subseteq wanted.sub
    BY <1>4, <2>1, FallbackMatches
  <2>4. PICK s \in Seq(Chunks) : Range(s) = Range(c) /\ exact' = First(wanted.limit, s)
    <3>1. CASE wanted.decay
      <4>1. PICK order \in SetToSeqs(DOMAIN c) :
              exact' = First(wanted.limit, [i \in DOMAIN c |-> c[order[i]]])
        BY <1>4, <3>1 DEF ExactSubstring
      <4> DEFINE p == [i \in DOMAIN c |-> c[order[i]]]
      <4> HIDE DEF c
      <4>2. p \in Seq(Chunks) /\ Range(p) = Range(c)
        BY <2>2, SortedLists
      <4>3. QED
        BY <4>1, <4>2
    <3>2. CASE ~wanted.decay
      <4>1. exact' = First(wanted.limit, c)
        BY <1>4, <3>2 DEF ExactSubstring
      <4>2. QED
        BY <2>2, <4>1
    <3>3. QED
      BY <3>1, <3>2
  <2> HIDE DEF c
  <2>5. Range(exact') \subseteq Range(s) /\ Len(exact') <= wanted.limit
    BY <1>2, <1>4, <2>4, FirstIsPrefix, CutLength
  <2>6. Range(exact) \subseteq wanted.fts \cup wanted.sub /\ wanted \in ExactInputs
    BY DEF ExactTypes
  <2>7. Range(exact') \subseteq wanted.fts \cup wanted.sub
    BY <2>2, <2>3, <2>4, <2>5, <2>6
  <2>8. QED
    BY <2>1, <2>5, <2>6, <2>7 DEF ExactTypes
<1>5. search' = search
  BY DEF SearchNext, searchVars
<1>6. QED
  BY <1>1, <1>3, <1>4, <1>5 DEF SearchNext, Exact, searchVars

LEMMA TraceTypesStep ==
  ASSUME TraceInv, TraceTypes, TablesTypes, [SearchNext]_searchVars
  PROVE  TraceTypes'
<1>1. edges \subseteq edges'
  BY DEF SearchNext, StoreMemory, EmbedChunk, AddEdge, tables, searchVars
<1>2. ASSUME UNCHANGED traceVars PROVE TraceTypes'
  BY <1>1, <1>2 DEF traceVars, TraceTypes
<1>3. asked.nodes \in Nat
  BY TraceAssumption DEF TraceTypes, TraceInputs
<1>4. ASSUME search = "trace", TraceNodes PROVE TraceTypes'
  <2>1. /\ selected' = First(asked.nodes, ByDistance) /\ truncated' = (Len(ByDistance) > asked.nodes)
        /\ asked' = asked /\ traced' = traced
        /\ tpc' = IF selected' = <<>> THEN "done" ELSE "edges"
    BY <1>4 DEF TraceNodes
  <2>2. ByDistance \in Seq(Near(edges))
    BY <1>4, ByDistanceLists DEF TraceInv, Lists
  <2>3. Len(selected') <= asked.nodes
    BY <1>3, <2>1, <2>2, CutLength
  <2>4. truncated' \in BOOLEAN
    BY <2>1
  <2>5. tpc' # "nodes"
    BY <2>1
  <2>6. QED
    BY <1>1, <2>1, <2>3, <2>4, <2>5 DEF TraceTypes
<1>5. ASSUME search = "trace", TraceEdges, UNCHANGED tables PROVE TraceTypes'
  BY <1>5 DEF TraceEdges, tables, TraceTypes
<1>6. QED
  BY <1>2, <1>4, <1>5 DEF SearchNext, Trace, searchVars

(* What the queries hold keeps its type: no answer has more rows than its  *)
(* limit, no memory more than three highlights, no score is above One, and *)
(* an answer of TraceDependencies has edges of the graph only.             *)
THEOREM SearchTypeCorrect == SearchSpec => []SearchTypeOK
<1>1. SearchInit => SearchInv
  BY FuzzyInitInv, ExactInitInv, TraceInitInv, InitTypes DEF SearchInv
<1>2. SearchInv /\ [SearchNext]_searchVars => SearchInv'
  <2>1. SUFFICES ASSUME SearchInv, [SearchNext]_searchVars PROVE SearchInv'
    OBVIOUS
  <2>2. FuzzyInv'
    BY <2>1, TablesStep, FuzzyStepBase, VersionStep, NewestStep DEF SearchInv, FuzzyInv
  <2>3. ExactInv' /\ TraceInv'
    BY <2>1, ExactStep, TraceStep DEF SearchInv, FuzzyInv
  <2>4. TablesTypes' /\ FuzzyTypes' /\ ExactTypes' /\ TraceTypes'
    BY <2>1, TablesTypesStep, FuzzyTypesStep, ExactTypesStep, TraceTypesStep
    DEF SearchInv, SearchTypes
  <2>5. QED
    BY <2>2, <2>3, <2>4 DEF SearchInv, SearchTypes
<1>3. QED
  BY <1>1, <1>2, TypesSuffice, PTL DEF SearchSpec
=============================================================================
