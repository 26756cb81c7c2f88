-------------------------- MODULE EmbedTaskProofs ---------------------------
(***************************************************************************)
(* Proofs about EmbedTask: splitting chunks under concurrent readers never *)
(* breaks the numbering of the chunks nor leaves a vector of another text  *)
(* behind, for any number of workers, any document and any number of       *)
(* leases that run out under a live worker.                                *)
(***************************************************************************)
EXTENDS EmbedTask, SequenceTheorems, TLAPS

Row == [index : Nat, text : Text]

LEMMA RowRecord ==
  ASSUME NEW i \in Nat, NEW t \in Text
  PROVE  [index |-> i, text |-> t] \in Row
  BY DEF Row

LEMMA FunctionIsSequence ==
  ASSUME NEW S, NEW n \in Nat, NEW f \in [1..n -> S]
  PROVE  f \in Seq(S) /\ Len(f) = n /\ DOMAIN f = 1..n
<1>1. f \in Seq(S)
  BY SeqDef
<1>2. Len(f) \in Nat /\ DOMAIN f = 1..Len(f)
  BY <1>1, LenProperties
<1>3. 1..Len(f) = 1..n => Len(f) = n
  BY <1>2
<1>4. QED
  BY <1>1, <1>2, <1>3

LEMMA TextBounds ==
  ASSUME NEW t \in Text
  PROVE  /\ t[1] \in Nat /\ t[2] \in Nat /\ t[1] <= t[2]
         /\ t[1] \in 1..Length /\ t[2] \in 1..Length
         /\ t = <<t[1], t[2]>>
<1>1. t \in (1..Length) \X (1..Length) /\ t[1] <= t[2]
  BY DEF Text
<1>2. QED
  BY <1>1, EmbedTaskAssumption

(* The parts of a text are single segments, one for each it holds.         *)
LEMMA SplitParts ==
  ASSUME NEW t \in Text
  PROVE  /\ Split(t) \in Seq(Text)
         /\ Len(Split(t)) = t[2] - t[1] + 1
         /\ \A k \in 1..Len(Split(t)) : Split(t)[k] = <<t[1] + k - 1, t[1] + k - 1>>
<1> DEFINE n == t[2] - t[1] + 1
<1>1. n \in Nat
  BY TextBounds
<1>2. ASSUME NEW k \in 1..n PROVE <<t[1] + k - 1, t[1] + k - 1>> \in Text
  <2>1. t[1] + k - 1 \in 1..Length
    <3>1. /\ t[1] \in Nat /\ t[2] \in Nat /\ t[2] \in 1..Length /\ t[1] \in 1..Length
      BY TextBounds
    <3>2. \A lo, hi \in Nat : k \in 1..hi - lo + 1 /\ 1 <= lo /\ hi <= Length
                               => lo + k - 1 \in 1..Length
      BY EmbedTaskAssumption
    <3>3. QED
      BY <3>1, <3>2
  <2>2. t[1] + k - 1 <= t[1] + k - 1
    BY <2>1
  <2>3. QED
    BY <2>1, <2>2 DEF Text
<1>3. Split(t) \in [1..n -> Text]
  BY <1>2 DEF Split
<1>4. Split(t) \in Seq(Text) /\ Len(Split(t)) = n
  BY <1>1, <1>3, FunctionIsSequence
<1>5. QED
  BY <1>4 DEF Split

-----------------------------------------------------------------------------
(* What the transaction that splits a chunk makes of memory_chunks.        *)

LEMMA SplicedRows ==
  ASSUME chunks \in Seq(Row), NEW c \in Record,
         NEW parts \in Seq(Text), Len(parts) > 1
  PROVE  /\ Spliced(c, parts) \in Seq(Row)
         /\ DOMAIN Spliced(c, parts) = 1..Len(chunks) + Len(parts) - 1
         /\ \A id \in 1..Len(chunks) :
              Spliced(c, parts)[id].text =
                IF id = c.id THEN parts[1] ELSE chunks[id].text
         /\ \A k \in 2..Len(parts) :
              Spliced(c, parts)[Len(chunks) + k - 1].text = parts[k]
<1> DEFINE n == Len(chunks)
           s == Len(parts) - 1
           Ix(id) == IF id > n THEN c.index + id - n
                     ELSE IF chunks[id].index > c.index
                     THEN chunks[id].index + s ELSE chunks[id].index
           Tx(id) == IF id > n THEN parts[id - n + 1]
                     ELSE IF id = c.id THEN parts[1] ELSE chunks[id].text
<1>1. n \in Nat /\ s \in Nat /\ Len(parts) \in Nat /\ c.index \in Nat
  BY LenProperties DEF Record
<1>2. \A id \in 1..n : chunks[id] \in Row
  BY ElementOfSeq
<1>3. \A id \in 1..n : chunks[id].index \in Nat /\ chunks[id].text \in Text
  BY <1>2 DEF Row
<1>4. \A k \in 1..Len(parts) : parts[k] \in Text
  BY ElementOfSeq
<1>5. ASSUME NEW id \in 1..n + s
      PROVE  /\ Spliced(c, parts)[id] = [index |-> Ix(id), text |-> Tx(id)]
             /\ Ix(id) \in Nat /\ Tx(id) \in Text
  <2>1. CASE id > n
    <3>1. Spliced(c, parts)[id] = [index |-> c.index + id - n, text |-> parts[id - n + 1]]
      BY <1>1, <2>1 DEF Spliced
    <3>2. id - n + 1 \in 1..Len(parts) /\ c.index + id - n \in Nat
      BY <1>1, <2>1
    <3>3. QED
      BY <1>4, <2>1, <3>1, <3>2
  <2>2. CASE id <= n
    <3>1. id \in 1..n /\ 1 \in 1..Len(parts) /\ ~(id > n)
      BY <1>1, <2>2
    <3>2. Spliced(c, parts)[id] =
            [index |-> IF chunks[id].index > c.index
                       THEN chunks[id].index + s ELSE chunks[id].index,
             text |-> IF id = c.id THEN parts[1] ELSE chunks[id].text]
      BY <1>1, <3>1 DEF Spliced
    <3>3. QED
      BY <1>1, <1>3, <1>4, <3>1, <3>2
  <2>3. QED
    BY <1>1, <2>1, <2>2
<1> HIDE DEF Ix, Tx
<1>6. ASSUME NEW id \in 1..n + s PROVE Spliced(c, parts)[id] \in Row
  BY <1>5, RowRecord
<1>7. Spliced(c, parts) \in [1..n + s -> Row]
  <2>1. Spliced(c, parts) = [id \in 1..n + s |-> Spliced(c, parts)[id]]
    BY <1>1 DEF Spliced
  <2>2. QED
    BY <1>6, <2>1
<1>8. n + s \in Nat /\ n + Len(parts) - 1 = n + s
  BY <1>1
<1>9. ASSUME NEW id \in 1..n
      PROVE  Spliced(c, parts)[id].text = IF id = c.id THEN parts[1] ELSE chunks[id].text
  <2>1. id \in 1..n + s /\ ~(id > n)
    BY <1>1
  <2>2. Spliced(c, parts)[id] = [index |-> Ix(id), text |-> Tx(id)]
    BY <1>5, <2>1
  <2>3. Tx(id) = IF id = c.id THEN parts[1] ELSE chunks[id].text
    BY <2>1 DEF Tx
  <2>4. QED
    BY <2>2, <2>3
<1>10. Spliced(c, parts) \in Seq(Row) /\ DOMAIN Spliced(c, parts) = 1..n + s
  BY <1>7, <1>8, FunctionIsSequence
<1>11. ASSUME NEW k \in 2..Len(parts)
       PROVE  Spliced(c, parts)[n + k - 1].text = parts[k]
  <2>1. n + k - 1 \in 1..n + s /\ n + k - 1 > n /\ n + k - 1 - n + 1 = k
    BY <1>1
  <2>2. Spliced(c, parts)[n + k - 1] =
          [index |-> c.index + (n + k - 1) - n, text |-> parts[n + k - 1 - n + 1]]
    BY <1>1, <2>1 DEF Spliced
  <2>3. QED
    BY <2>1, <2>2
<1>12. QED
  BY <1>8, <1>9, <1>10, <1>11

LEMMA MovedUp ==
  ASSUME NEW i \in Nat, NEW s \in Nat, NEW at \in Nat
  PROVE  LET r == IF i > at THEN i + s ELSE i
         IN  r <= at \/ r > at + s
OBVIOUS

(* The rows that move up make room for exactly the rows that are inserted, *)
(* even if the index the worker read is no longer that of the chunk.       *)
LEMMA SplicedIndexes ==
  ASSUME chunks \in Seq(Row), IndexesDistinct, NEW c \in Record,
         NEW parts \in Seq(Text), Len(parts) > 1,
         NEW a \in 1..Len(chunks) + Len(parts) - 1,
         NEW b \in 1..Len(chunks) + Len(parts) - 1,
         Spliced(c, parts)[a].index = Spliced(c, parts)[b].index
  PROVE  a = b
<1> DEFINE n == Len(chunks)
           s == Len(parts) - 1
           Ix(id) == IF id > n THEN c.index + id - n
                     ELSE IF chunks[id].index > c.index
                     THEN chunks[id].index + s ELSE chunks[id].index
<1>1. n \in Nat /\ s \in Nat /\ c.index \in Nat
  BY LenProperties DEF Record
<1>2. ASSUME NEW id \in 1..n PROVE chunks[id].index \in Nat
  <2>1. chunks[id] \in Row
    BY ElementOfSeq
  <2>2. QED
    BY <2>1 DEF Row
<1>3. \A id \in 1..n + s : Spliced(c, parts)[id].index = Ix(id)
  BY <1>1 DEF Spliced
<1>4. Ix(a) = Ix(b)
  BY <1>1, <1>3
<1>5. ASSUME NEW id \in 1..n + s
      PROVE  /\ id > n => Ix(id) > c.index /\ Ix(id) <= c.index + s
             /\ id <= n => Ix(id) <= c.index \/ Ix(id) > c.index + s
  <2>1. CASE id > n
    BY <1>1, <2>1
  <2>2. CASE id <= n
    <3>1. id \in 1..n /\ ~(id > n)
      BY <1>1, <2>2
    <3>2. PICK i \in Nat : i = chunks[id].index
      BY <1>2, <3>1
    <3>3. Ix(id) = IF i > c.index THEN i + s ELSE i
      BY <3>1, <3>2
    <3> HIDE DEF Ix
    <3>4. Ix(id) <= c.index \/ Ix(id) > c.index + s
      BY <1>1, <3>2, <3>3, MovedUp
    <3>5. QED
      BY <3>1, <3>4
  <2>3. QED
    BY <1>1, <2>1, <2>2
<1>6. CASE a > n /\ b > n
  BY <1>1, <1>4, <1>6
<1>7. CASE a <= n /\ b <= n
  <2>1. a \in 1..n /\ b \in 1..n
    BY <1>1, <1>7
  <2>2. chunks[a].index = chunks[b].index
    BY <1>1, <1>2, <1>4, <2>1
  <2>3. a \in DOMAIN chunks /\ b \in DOMAIN chunks
    BY <2>1
  <2>4. QED
    BY <2>2, <2>3 DEF IndexesDistinct, Ids
<1>8. n + s = Len(chunks) + Len(parts) - 1 /\ Len(parts) \in Nat
  BY <1>1, LenProperties
<1>9. a \in Nat /\ b \in Nat /\ a \in 1..n + s /\ b \in 1..n + s
  BY <1>1, <1>8
<1>10. Ix(a) \in Int /\ Ix(b) \in Int
  <2>1. ASSUME NEW id \in 1..n + s PROVE Ix(id) \in Int
    <3>1. CASE id > n
      BY <1>1, <3>1
    <3>2. CASE ~(id > n)
      <4>1. id \in 1..n
        BY <1>1, <3>2
      <4>2. chunks[id].index \in Nat
        BY <1>2, <4>1
      <4>3. QED
        BY <1>1, <3>2, <4>2
    <3>3. QED
      BY <3>1, <3>2
  <2>2. QED
    BY <1>9, <2>1
<1> HIDE DEF Ix
<1>11. ~(a > n /\ b <= n)
  BY <1>1, <1>4, <1>5, <1>9, <1>10
<1>12. ~(a <= n /\ b > n)
  BY <1>1, <1>4, <1>5, <1>9, <1>10
<1>13. QED
  BY <1>1, <1>6, <1>7, <1>9, <1>11, <1>12

-----------------------------------------------------------------------------
(* The inductive invariant: a record a worker still holds starts where the *)
(* row starts, and the row holds its text or, once split, its first part;  *)
(* a row that has a vector holds a single segment, so it is split no more. *)

FirstPart(text) == <<text[1], text[1]>>

EmbedInv ==
  /\ TypeOK
  /\ IndexesDistinct
  /\ \A id \in DOMAIN vectors :
       vectors[id] = chunks[id].text /\ FirstPart(vectors[id]) = vectors[id]
  /\ \A w \in Workers : \A r \in todo[w] :
       r.id \in Ids /\ chunks[r.id].text \in {r.text, FirstPart(r.text)}

tablesOnly == <<chunks, vectors>>

LEMMA ChunkRows ==
  ASSUME TypeOK
  PROVE  /\ chunks \in Seq(Row)
         /\ Ids = 1..Len(chunks)
         /\ \A id \in Ids : chunks[id] \in Row /\ chunks[id].index \in Nat
                            /\ chunks[id].text \in Text
<1>1. chunks \in Seq(Row) /\ Ids = 1..Len(chunks)
  BY DEF TypeOK, Row, Ids
<1>2. ASSUME NEW id \in Ids PROVE chunks[id] \in Row
  BY <1>1, ElementOfSeq
<1>3. QED
  BY <1>1, <1>2 DEF Row

(* A record that fits the model is a single segment.                       *)
LEMMA FittingIsHead ==
  ASSUME NEW t \in Text, ~TooLong(t)
  PROVE  FirstPart(t) = t
<1>1. t[1] = t[2]
  BY TextBounds DEF TooLong
<1>2. QED
  BY <1>1, TextBounds DEF FirstPart

LEMMA InitEmbed == Init => EmbedInv
<1> SUFFICES ASSUME Init PROVE EmbedInv
  OBVIOUS
<1> DEFINE n == Len(Cuts)
<1>1. Cuts \in Seq(Text) /\ n \in Nat /\ DOMAIN Cuts = 1..n
  BY EmbedTaskAssumption, LenProperties
<1>2. ASSUME NEW k \in 1..n
      PROVE  chunks[k] = [index |-> k - 1, text |-> Cuts[k]] /\ chunks[k] \in Row
  <2>1. chunks[k] = [index |-> k - 1, text |-> Cuts[k]]
    BY <1>1 DEF Init
  <2>2. Cuts[k] \in Text /\ k - 1 \in Nat
    BY <1>1, ElementOfSeq
  <2>3. QED
    BY <2>1, <2>2, RowRecord
<1>3. chunks \in [1..n -> Row]
  <2>1. chunks = [k \in 1..n |-> chunks[k]]
    BY <1>1 DEF Init
  <2>2. QED
    BY <1>2, <2>1
<1>4. chunks \in Seq(Row) /\ DOMAIN chunks = 1..n
  BY <1>1, <1>3, FunctionIsSequence
<1>5. DOMAIN vectors = {}
  BY DEF Init
<1>6. TypeOK
  BY <1>4, <1>5, EmbedTaskAssumption DEF Init, TypeOK, Row
<1>7. ASSUME NEW a \in 1..n, NEW b \in 1..n, chunks[a].index = chunks[b].index
      PROVE  a = b
  <2>1. chunks[a].index = a - 1
    <3>1. chunks[a] = [index |-> a - 1, text |-> Cuts[a]]
      BY <1>2
    <3>2. QED
      BY <3>1
  <2>2. chunks[b].index = b - 1
    <3>1. chunks[b] = [index |-> b - 1, text |-> Cuts[b]]
      BY <1>2
    <3>2. QED
      BY <3>1
  <2>3. a - 1 = b - 1
    BY <1>7, <2>1, <2>2, Zenon
  <2>4. QED
    BY <1>1, <2>3
<1>8. QED
  BY <1>4, <1>5, <1>6, <1>7 DEF Init, EmbedInv, IndexesDistinct, Ids

(* What a step must keep when it touches neither table.                    *)
LEMMA QuietStep ==
  ASSUME EmbedInv, TypeOK', UNCHANGED tablesOnly,
         \A w \in Workers : \A r \in todo'[w] :
           r.id \in Ids /\ chunks[r.id].text \in {r.text, FirstPart(r.text)}
  PROVE  EmbedInv'
  BY DEF EmbedInv, IndexesDistinct, Ids, tablesOnly, FirstPart

LEMMA LeaveTypes ==
  ASSUME TypeOK, NEW w \in Workers, Leave(w)
  PROVE  /\ pc' \in [Workers -> {"idle", "load", "embed"}]
         /\ attempt' \in [Workers -> 0..MaxAttempts]
         /\ todo' \in [Workers -> SUBSET Record]
         /\ \A v \in Workers : todo'[v] \subseteq todo[v]
  BY EmbedTaskAssumption DEF TypeOK, Leave

LEMMA StepEmbed == EmbedInv /\ [Next]_vars => EmbedInv'
<1> SUFFICES ASSUME EmbedInv, [Next]_vars PROVE EmbedInv'
  OBVIOUS
<1>0. TypeOK
  BY DEF EmbedInv
<1>1. ASSUME NEW w \in Workers, Lease(w) PROVE EmbedInv'
  <2>1. TypeOK'
    BY <1>0, <1>1, EmbedTaskAssumption DEF TypeOK, Lease, Ids
  <2>2. UNCHANGED <<tablesOnly, todo>>
    BY <1>1 DEF Lease, tablesOnly
  <2>3. QED
    BY <2>1, <2>2, QuietStep DEF EmbedInv
<1>2. ASSUME NEW w \in Workers, Load(w) PROVE EmbedInv'
  <2>1. ASSUME NEW r \in Loaded
        PROVE  r \in Record /\ r.id \in Ids /\ chunks[r.id].text = r.text
    <3>1. PICK id \in Ids :
            r = [id |-> id, index |-> chunks[id].index, text |-> chunks[id].text]
      BY DEF Loaded
    <3>2. id \in Nat /\ chunks[id].index \in Nat /\ chunks[id].text \in Text
      BY <1>0, ChunkRows
    <3>3. QED
      BY <3>1, <3>2 DEF Record
  <2>2. TypeOK'
    <3>1. Loaded \in SUBSET Record
      BY <2>1
    <3>2. /\ todo' = [todo EXCEPT ![w] = Loaded]
          /\ pc' = [pc EXCEPT ![w] = "embed"]
          /\ UNCHANGED <<stubborn, chunks, vectors, taskVars, attempt>>
      BY <1>2 DEF Load
    <3>3. QED
      BY <1>0, <3>1, <3>2 DEF TypeOK, Ids, taskVars
  <2>3. UNCHANGED tablesOnly
    BY <1>2 DEF Load, tablesOnly
  <2>4. \A v \in Workers : todo'[v] = IF v = w THEN Loaded ELSE todo[v]
    BY <1>0, <1>2 DEF Load, TypeOK
  <2>5. QED
    BY <2>1, <2>2, <2>3, <2>4, QuietStep DEF EmbedInv
<1>3. ASSUME NEW w \in Workers, EmbedChunk(w) PROVE EmbedInv'
  <2>1. PICK c \in todo[w] :
          /\ ~TooLong(c.text)
          /\ PutVector(c.id, c.text)
          /\ todo' = [todo EXCEPT ![w] = @ \ {c}]
          /\ UNCHANGED <<stubborn, chunks, taskVars, pc, attempt>>
    BY <1>3 DEF EmbedChunk
  <2>2. c \in Record /\ c.id \in Ids /\ c.text \in Text
    BY <1>0, <2>1 DEF EmbedInv, TypeOK, Record
  <2>3. chunks[c.id].text = c.text /\ FirstPart(c.text) = c.text
    BY <2>1, <2>2, FittingIsHead DEF EmbedInv
  <2>4. DOMAIN vectors' = DOMAIN vectors \cup {c.id}
    BY <2>1 DEF PutVector
  <2>5. \A id \in DOMAIN vectors' :
          vectors'[id] = IF id = c.id THEN c.text ELSE vectors[id]
    BY <2>1 DEF PutVector
  <2>6. TypeOK'
    BY <1>0, <2>1, <2>2, <2>4, <2>5 DEF TypeOK, Ids, taskVars
  <2>7. \A v \in Workers : todo'[v] \subseteq todo[v]
    BY <1>0, <2>1 DEF TypeOK
  <2>8. \A id \in DOMAIN vectors' :
          vectors'[id] = chunks[id].text /\ FirstPart(vectors'[id]) = vectors'[id]
    BY <2>3, <2>4, <2>5 DEF EmbedInv
  <2>9. QED
    BY <2>1, <2>6, <2>7, <2>8 DEF EmbedInv, IndexesDistinct, Ids, FirstPart
<1>4. ASSUME NEW w \in Workers, Rechunk(w) PROVE EmbedInv'
  <2>1. PICK c \in todo[w] :
          /\ Len(Split(c.text)) > 1
          /\ chunks' = Spliced(c, Split(c.text))
          /\ pc' = [pc EXCEPT ![w] = "load"]
          /\ UNCHANGED <<stubborn, vectors, taskVars, attempt, todo>>
    BY <1>4 DEF Rechunk
  <2> DEFINE parts == Split(c.text)
             n == Len(chunks)
  <2>2. c \in Record /\ c.id \in Ids /\ c.text \in Text
    BY <1>0, <2>1 DEF EmbedInv, TypeOK, Record
  <2>3. parts \in Seq(Text) /\ Len(parts) > 1 /\ parts[1] = FirstPart(c.text)
    <3>1. parts \in Seq(Text) /\ Len(parts) \in Nat /\ Len(parts) > 1
      BY <2>1, <2>2, SplitParts, LenProperties
    <3>2. parts[1] = <<c.text[1] + 1 - 1, c.text[1] + 1 - 1>>
      BY <2>2, <3>1, SplitParts
    <3>3. c.text[1] + 1 - 1 = c.text[1]
      BY <2>2, TextBounds
    <3>4. QED
      BY <3>1, <3>2, <3>3 DEF FirstPart
  <2>4. chunks \in Seq(Row) /\ Ids = 1..n /\ n \in Nat
    BY <1>0, ChunkRows, LenProperties
  <2>5. /\ chunks' \in Seq(Row) /\ DOMAIN chunks' = 1..n + Len(parts) - 1
        /\ \A id \in 1..n : chunks'[id].text =
             IF id = c.id THEN parts[1] ELSE chunks[id].text
    BY <2>1, <2>2, <2>3, <2>4, SplicedRows
  <2>6. Ids \subseteq Ids'
    BY <2>3, <2>4, <2>5, LenProperties DEF Ids
  <2>7. TypeOK'
    BY <1>0, <2>1, <2>5, <2>6 DEF TypeOK, Row, taskVars
  <2>8. IndexesDistinct'
    <3> HIDE DEF parts
    <3>1. chunks' = Spliced(c, parts) /\ IndexesDistinct
      BY <2>1 DEF parts, EmbedInv
    <3>2. ASSUME NEW a \in DOMAIN chunks', NEW b \in DOMAIN chunks',
                 chunks'[a].index = chunks'[b].index
          PROVE  a = b
      BY <2>2, <2>3, <2>4, <2>5, <3>1, <3>2, SplicedIndexes
    <3>3. QED
      BY <3>2 DEF IndexesDistinct, Ids
  <2>9. chunks[c.id].text \in {c.text, FirstPart(c.text)}
    BY <2>1 DEF EmbedInv
  <2>10. FirstPart(FirstPart(c.text)) = FirstPart(c.text)
    BY DEF FirstPart
  <2>11. \A id \in Ids :
           \/ chunks'[id].text = chunks[id].text
           \/ id = c.id /\ chunks'[id].text = FirstPart(c.text)
    BY <2>3, <2>4, <2>5
  <2>12. ASSUME NEW id \in DOMAIN vectors
         PROVE  vectors[id] = chunks'[id].text /\ FirstPart(vectors[id]) = vectors[id]
    <3>1. id \in Ids /\ vectors[id] = chunks[id].text /\ FirstPart(vectors[id]) = vectors[id]
      BY <1>0 DEF EmbedInv, TypeOK
    <3>2. CASE chunks'[id].text = chunks[id].text
      BY <3>1, <3>2
    <3>3. CASE id = c.id /\ chunks'[id].text = FirstPart(c.text)
      BY <2>9, <2>10, <3>1, <3>3 DEF FirstPart
    <3>4. QED
      BY <2>11, <3>1, <3>2, <3>3
  <2>13. ASSUME NEW v \in Workers, NEW r \in todo[v]
         PROVE  r.id \in Ids /\ chunks'[r.id].text \in {r.text, FirstPart(r.text)}
    <3>1. r.id \in Ids /\ chunks[r.id].text \in {r.text, FirstPart(r.text)}
      BY DEF EmbedInv
    <3>2. CASE chunks'[r.id].text = chunks[r.id].text
      BY <3>1, <3>2
    <3>3. CASE r.id = c.id /\ chunks'[r.id].text = FirstPart(c.text)
      <4>1. FirstPart(c.text) = FirstPart(r.text)
        BY <2>9, <3>1, <3>3 DEF FirstPart
      <4>2. QED
        BY <3>1, <3>3, <4>1
    <3>4. QED
      BY <2>11, <3>1, <3>2, <3>3
  <2>14. QED
    BY <2>1, <2>6, <2>7, <2>8, <2>12, <2>13 DEF EmbedInv, FirstPart
<1>5. ASSUME NEW w \in Workers, Complete(w) \/ Fail(w) \/ Die(w) PROVE EmbedInv'
  <2>1. Leave(w) /\ UNCHANGED <<stubborn, tablesOnly, attempts, overruns>>
    BY <1>5 DEF Complete, Fail, Die, tablesOnly, taskVars
  <2>2. status' \in {"pending", "processing", "completed", "failed"}
    BY <1>0, <1>5 DEF Complete, Fail, Die, TypeOK, taskVars
  <2>3. TypeOK'
    BY <1>0, <2>1, <2>2, LeaveTypes DEF TypeOK, Ids, tablesOnly
  <2>4. QED
    BY <1>0, <2>1, <2>3, LeaveTypes, QuietStep DEF EmbedInv
<1>6. CASE UNCHANGED vars
  BY <1>6 DEF vars, taskVars, EmbedInv, TypeOK, IndexesDistinct, Ids, FirstPart
<1>7. QED
  BY <1>1, <1>2, <1>3, <1>4, <1>5, <1>6 DEF Next, Step

LEMMA EmbedInvariant == Spec => []EmbedInv
  BY InitEmbed, StepEmbed, PTL DEF Spec

(* Every variable keeps its type.                                          *)
THEOREM EmbedTypeCorrect == Spec => []TypeOK
<1>1. EmbedInv => TypeOK
  BY DEF EmbedInv
<1>2. QED
  BY <1>1, EmbedInvariant, PTL

(* UNIQUE(memory_id, chunk_index) never rejects a split.                   *)
THEOREM SplitsNeverCollide == Spec => []IndexesDistinct
<1>1. EmbedInv => IndexesDistinct
  BY DEF EmbedInv
<1>2. QED
  BY <1>1, EmbedInvariant, PTL

(* No vector outlives the text it was made from.                           *)
THEOREM VectorsNeverStale == Spec => []VectorsCurrent
<1>1. EmbedInv => VectorsCurrent
  BY DEF EmbedInv, VectorsCurrent
<1>2. QED
  BY <1>1, EmbedInvariant, PTL

-----------------------------------------------------------------------------
(* No text is lost: the parts of a split hold every segment of the text    *)
(* the worker read, and the row holds nothing else.                        *)

LEMMA InitNoTextLost == Init => NoTextLost
<1> SUFFICES ASSUME Init, NEW k \in 1..Length
             PROVE  \E a \in Ids : k \in chunks[a].text[1]..chunks[a].text[2]
  BY DEF NoTextLost
<1>1. PICK i \in DOMAIN Cuts : k \in Cuts[i][1]..Cuts[i][2]
  BY EmbedTaskAssumption
<1>2. i \in Ids /\ chunks[i].text = Cuts[i]
  BY DEF Init, Ids
<1>3. QED
  BY <1>1, <1>2

(* A segment of a text is in one of its parts.                             *)
LEMMA SegmentHasPart ==
  ASSUME NEW t \in Text, NEW k \in t[1]..t[2]
  PROVE  \E j \in 1..Len(Split(t)) : k \in Split(t)[j][1]..Split(t)[j][2]
<1>1. t[1] \in Nat /\ t[2] \in Nat /\ k \in Nat /\ t[1] <= k /\ k <= t[2]
  BY TextBounds
<1> DEFINE j == k - t[1] + 1
<1>2. j \in 1..t[2] - t[1] + 1 /\ t[1] + j - 1 = k
  BY <1>1
<1>3. j \in 1..Len(Split(t))
  BY <1>2, SplitParts
<1>4. Split(t)[j] = <<t[1] + j - 1, t[1] + j - 1>>
  BY <1>3, SplitParts
<1>5. Split(t)[j][1] = k /\ Split(t)[j][2] = k
  BY <1>2, <1>4
<1>6. QED
  BY <1>1, <1>3, <1>5

LEMMA RechunkKeepsText ==
  ASSUME EmbedInv, NoTextLost, NEW w \in Workers, Rechunk(w)
  PROVE  NoTextLost'
<1> SUFFICES ASSUME NEW k \in 1..Length
             PROVE  \E b \in Ids' : k \in chunks'[b].text[1]..chunks'[b].text[2]
  BY DEF NoTextLost
<1>1. PICK c \in todo[w] : Len(Split(c.text)) > 1 /\ chunks' = Spliced(c, Split(c.text))
  BY DEF Rechunk
<1> DEFINE parts == Split(c.text)
           n == Len(chunks)
<1>2. /\ c \in Record /\ c.id \in Ids /\ c.text \in Text
      /\ chunks[c.id].text \in {c.text, FirstPart(c.text)}
  BY <1>1 DEF EmbedInv, TypeOK, Record
<1>3. chunks \in Seq(Row) /\ Ids = 1..n /\ n \in Nat
  BY ChunkRows, LenProperties DEF EmbedInv
<1>4. parts \in Seq(Text) /\ Len(parts) \in Nat /\ Len(parts) > 1
  BY <1>1, <1>2, SplitParts, LenProperties
<1>5. /\ Ids' = 1..n + Len(parts) - 1
      /\ \A id \in 1..n : chunks'[id].text = IF id = c.id THEN parts[1] ELSE chunks[id].text
      /\ \A j \in 2..Len(parts) : chunks'[n + j - 1].text = parts[j]
  BY <1>1, <1>2, <1>3, <1>4, SplicedRows DEF Ids
<1>6. PICK a \in Ids : k \in chunks[a].text[1]..chunks[a].text[2]
  BY DEF NoTextLost
<1>7. CASE a # c.id
  BY <1>3, <1>4, <1>5, <1>6, <1>7
<1>8. CASE a = c.id
  <2>1. k \in c.text[1]..c.text[2]
    <3>1. c.text[1] \in Nat /\ c.text[2] \in Nat /\ c.text[1] <= c.text[2]
      BY <1>2, TextBounds
    <3>2. CASE chunks[c.id].text = c.text
      BY <1>6, <1>8, <3>2
    <3>3. CASE chunks[c.id].text = FirstPart(c.text)
      BY <1>6, <1>8, <3>1, <3>3 DEF FirstPart
    <3>4. QED
      BY <1>2, <3>2, <3>3
  <2>2. PICK j \in 1..Len(parts) : k \in parts[j][1]..parts[j][2]
    BY <1>2, <2>1, SegmentHasPart
  <2>3. CASE j = 1
    <3>1. c.id \in Ids' /\ chunks'[c.id].text = parts[1]
      BY <1>2, <1>3, <1>4, <1>5
    <3>2. QED
      BY <2>2, <2>3, <3>1
  <2>4. CASE j # 1
    <3>1. j \in 2..Len(parts) /\ n + j - 1 \in Ids'
      BY <1>3, <1>4, <1>5, <2>4
    <3>2. chunks'[n + j - 1].text = parts[j]
      BY <1>5, <3>1
    <3>3. QED
      BY <2>2, <3>1, <3>2
  <2>5. QED
    BY <2>3, <2>4
<1>9. QED
  BY <1>7, <1>8

LEMMA StepNoTextLost == EmbedInv /\ NoTextLost /\ [Next]_vars => NoTextLost'
<1> SUFFICES ASSUME EmbedInv, NoTextLost, [Next]_vars PROVE NoTextLost'
  OBVIOUS
<1>1. CASE UNCHANGED chunks
  BY <1>1 DEF NoTextLost, Ids
<1>2. QED
  BY <1>1, RechunkKeepsText
     DEF Next, Step, Lease, Load, EmbedChunk, Complete, Fail, Die, vars

(* Every segment of the document stays in some chunk, whatever the workers *)
(* that split it had read.                                                 *)
THEOREM TextIsNeverLost == Spec => []NoTextLost
<1>1. QED
  BY InitNoTextLost, StepNoTextLost, EmbedInvariant, PTL DEF Spec

-----------------------------------------------------------------------------
(* As long as no lease runs out under a live worker, only one worker is at *)
(* the task, what it read is what the rows hold, and the rows it has not   *)
(* to embed any more have their vectors.                                   *)

Alone ==
  /\ \A v, w \in Workers : Busy(v) /\ Busy(w) => v = w
  /\ \A w \in Workers : Busy(w) => status = "processing"

Ordered ==
  \A a, b \in Ids :
    chunks[a].index < chunks[b].index => chunks[a].text[2] < chunks[b].text[1]

UpToDate ==
  \A w \in Workers : pc[w] = "embed" =>
    /\ todo[w] \subseteq Loaded
    /\ \A id \in Ids : id \in DOMAIN vectors \/ \E c \in todo[w] : c.id = id

Embedded == status = "completed" => DOMAIN vectors = Ids

CalmInv == overruns = 0 => Alone /\ Ordered /\ UpToDate /\ Embedded

(* Where the rows of a split chunk come to be.                             *)
LEMMA SplicedPlaces ==
  ASSUME chunks \in Seq(Row), NEW c \in Record, NEW parts \in Seq(Text), Len(parts) > 1
  PROVE  /\ \A id \in 1..Len(chunks) :
              Spliced(c, parts)[id].index =
                IF chunks[id].index > c.index THEN chunks[id].index + Len(parts) - 1
                ELSE chunks[id].index
         /\ \A k \in 2..Len(parts) :
              Spliced(c, parts)[Len(chunks) + k - 1].index = c.index + k - 1
<1> DEFINE n == Len(chunks)
<1>1. n \in Nat /\ Len(parts) \in Nat /\ c.index \in Nat
  BY LenProperties DEF Record
<1>2. ASSUME NEW id \in 1..n
      PROVE  Spliced(c, parts)[id].index =
               IF chunks[id].index > c.index THEN chunks[id].index + Len(parts) - 1
               ELSE chunks[id].index
  <2>1. id \in 1..n + Len(parts) - 1 /\ ~(id > n)
    BY <1>1
  <2>2. QED
    BY <1>1, <2>1 DEF Spliced
<1>3. ASSUME NEW k \in 2..Len(parts)
      PROVE  Spliced(c, parts)[n + k - 1].index = c.index + k - 1
  <2>1. n + k - 1 \in 1..n + Len(parts) - 1 /\ n + k - 1 > n
    BY <1>1
  <2>2. Spliced(c, parts)[n + k - 1].index = c.index + (n + k - 1) - n
    BY <1>1, <2>1 DEF Spliced
  <2>3. QED
    BY <1>1, <2>2
<1>4. QED
  BY <1>2, <1>3

LEMMA ShiftedInOrder ==
  ASSUME NEW i \in Nat, NEW j \in Nat, NEW m \in Nat, i + m - 1 < j + m - 1
  PROVE  i < j
OBVIOUS

(* The parts take the place of the chunk: what came before it comes before *)
(* them, what came behind it comes behind them.                            *)
LEMMA SplitKeepsOrder ==
  ASSUME chunks \in Seq(Row), IndexesDistinct, Ordered,
         NEW c \in Record, c.id \in Ids,
         chunks[c.id].index = c.index, chunks[c.id].text = c.text,
         Len(Split(c.text)) > 1,
         NEW a \in 1..Len(chunks) + Len(Split(c.text)) - 1,
         NEW b \in 1..Len(chunks) + Len(Split(c.text)) - 1,
         Spliced(c, Split(c.text))[a].index < Spliced(c, Split(c.text))[b].index
  PROVE  Spliced(c, Split(c.text))[a].text[2] < Spliced(c, Split(c.text))[b].text[1]
<1> DEFINE n == Len(chunks)
           parts == Split(c.text)
           m == Len(parts)
           lo == c.text[1]
           hi == c.text[2]
           at == c.index
           new == Spliced(c, parts)
           Kept(x) == x \in 1..n /\ new[x].text = chunks[x].text
           Before(x) == /\ Kept(x) /\ chunks[x].index < at
                        /\ new[x].index = chunks[x].index /\ new[x].text[2] < lo
           Behind(x) == /\ Kept(x) /\ chunks[x].index > at
                        /\ new[x].index = chunks[x].index + m - 1 /\ new[x].text[1] > hi
           Part(x) == \E k \in 1..m : /\ new[x].index = at + k - 1
                                      /\ new[x].text[1] = lo + k - 1
                                      /\ new[x].text[2] = lo + k - 1
<1>1. c.text \in Text /\ at \in Nat
  BY DEF Record
<1>2. parts \in Seq(Text) /\ m = hi - lo + 1 /\ m > 1
  BY <1>1, SplitParts
<1>3. \A k \in 1..m : parts[k][1] = lo + k - 1 /\ parts[k][2] = lo + k - 1
  <2>1. \A k \in 1..m : parts[k] = <<lo + k - 1, lo + k - 1>>
    BY <1>1, SplitParts
  <2>2. QED
    BY <2>1
<1>4. n \in Nat /\ m \in Nat /\ lo \in Nat /\ hi \in Nat /\ Ids = 1..n
  BY <1>1, <1>2, TextBounds, LenProperties DEF Ids
<1>5. \A x \in 1..n : chunks[x].index \in Nat /\ chunks[x].text \in Text
  <2>1. \A x \in 1..n : chunks[x] \in Row
    BY ElementOfSeq
  <2>2. QED
    BY <2>1 DEF Row
<1>6. /\ new \in Seq(Row) /\ DOMAIN new = 1..n + m - 1
      /\ \A id \in 1..n : new[id].text = IF id = c.id THEN parts[1] ELSE chunks[id].text
      /\ \A k \in 2..m : new[n + k - 1].text = parts[k]
  BY <1>2, SplicedRows
<1>7. /\ \A id \in 1..n : new[id].index =
           IF chunks[id].index > at THEN chunks[id].index + m - 1 ELSE chunks[id].index
      /\ \A k \in 2..m : new[n + k - 1].index = at + k - 1
  BY <1>2, SplicedPlaces
<1>8. /\ a \in 1..n + m - 1 /\ b \in 1..n + m - 1 /\ new[a].index < new[b].index
  OBVIOUS
<1>9. SUFFICES new[a].text[2] < new[b].text[1]
  OBVIOUS
<1> HIDE DEF parts, m, new, n, lo, hi, at
<1>10. ASSUME NEW x \in 1..n + m - 1
       PROVE  /\ new[x].index \in Nat /\ new[x].text[1] \in Nat /\ new[x].text[2] \in Nat
  <2>1. x \in 1..Len(new)
    BY <1>6, LenProperties
  <2>2. new[x] \in Row
    BY <1>6, <2>1, ElementOfSeq
  <2>3. QED
    BY <2>2, TextBounds DEF Row
<1>11. chunks[c.id].index = at /\ chunks[c.id].text[1] = lo /\ chunks[c.id].text[2] = hi
       /\ c.id \in 1..n
  BY <1>4 DEF at, lo, hi
<1>12. ASSUME NEW x \in 1..n + m - 1 PROVE Before(x) \/ Behind(x) \/ Part(x)
  <2>1. CASE x > n
    <3>1. PICK k \in 2..m : x = n + k - 1
      <4>1. x - n + 1 \in 2..m /\ x = n + (x - n + 1) - 1
        BY <1>4, <2>1
      <4>2. QED
        BY <4>1
    <3>2. new[x].text = parts[k] /\ new[x].index = at + k - 1 /\ k \in 1..m
      <4>1. k \in 1..m
        BY <1>4
      <4>2. new[x].text = parts[k]
        BY <1>6, <3>1
      <4>3. new[x].index = at + k - 1
        BY <1>7, <3>1
      <4>4. QED
        BY <4>1, <4>2, <4>3
    <3>3. parts[k][1] = lo + k - 1 /\ parts[k][2] = lo + k - 1
      BY <1>3, <3>2
    <3>4. QED
      BY <3>2, <3>3
  <2>2. CASE x = c.id
    <3>1. new[x].text = parts[1] /\ new[x].index = at /\ 1 \in 1..m
      <4>1. new[x].text = parts[1]
        BY <1>6, <1>11, <2>2
      <4>2. new[x].index = IF at > at THEN at + m - 1 ELSE at
        BY <1>7, <1>11, <2>2
      <4>3. ~(at > at)
        BY <1>1 DEF at
      <4>4. 1 \in 1..m
        BY <1>2, <1>4
      <4>5. QED
        BY <4>1, <4>2, <4>3, <4>4
    <3>2. parts[1][1] = lo + 1 - 1 /\ parts[1][2] = lo + 1 - 1
      BY <1>3, <3>1
    <3>3. at = at + 1 - 1
      BY <1>1 DEF at
    <3>4. /\ new[x].index = at + 1 - 1
          /\ new[x].text[1] = lo + 1 - 1 /\ new[x].text[2] = lo + 1 - 1
      BY <3>1, <3>2, <3>3
    <3>5. \E k \in 1..m : /\ new[x].index = at + k - 1
                          /\ new[x].text[1] = lo + k - 1 /\ new[x].text[2] = lo + k - 1
      <4> HIDE DEF Part
      <4>1. 1 \in 1..m
        BY <3>1
      <4>2. QED
        BY <3>4, <4>1
    <3>6. QED
      BY <3>5
  <2>3. CASE x <= n /\ x # c.id
    <3>1. x \in 1..n /\ new[x].text = chunks[x].text
      <4>1. x \in 1..n
        BY <1>4, <2>3
      <4>2. QED
        BY <1>6, <2>3, <4>1
    <3>2. chunks[x].index # at
      BY <1>4, <1>11, <2>3, <3>1 DEF IndexesDistinct
    <3>3. chunks[x].index < at => chunks[x].text[2] < lo
      BY <1>4, <1>11, <3>1 DEF Ordered
    <3>4. at < chunks[x].index => hi < chunks[x].text[1]
      BY <1>4, <1>11, <3>1 DEF Ordered
    <3>5. chunks[x].index \in Nat /\ chunks[x].text[1] \in Nat
      BY <1>5, <3>1, TextBounds
    <3>6. chunks[x].index < at \/ at < chunks[x].index
      BY <1>1, <3>2, <3>5 DEF at
    <3>7. CASE chunks[x].index < at
      BY <1>1, <1>7, <3>1, <3>3, <3>5, <3>7 DEF at
    <3>8. CASE at < chunks[x].index
      BY <1>1, <1>4, <1>7, <3>1, <3>4, <3>5, <3>8 DEF at
    <3>9. QED
      BY <3>6, <3>7, <3>8
  <2>4. QED
    BY <1>4, <2>1, <2>2, <2>3
<1>13. at \in Nat
  BY <1>1
<1>14. CASE Before(a) /\ Before(b)
  BY <1>4, <1>8, <1>14 DEF Ordered
<1>15. CASE Behind(a) /\ Behind(b)
  <2>1. chunks[a].index < chunks[b].index
    <3>1. PICK i \in Nat : i = chunks[a].index
      BY <1>5, <1>15
    <3>2. PICK j \in Nat : j = chunks[b].index
      BY <1>5, <1>15
    <3>3. new[a].index = i + m - 1 /\ new[b].index = j + m - 1
      BY <1>15, <3>1, <3>2
    <3>4. i + m - 1 < j + m - 1
      BY <1>8, <3>3
    <3>5. i < j
      BY <1>4, <3>4, ShiftedInOrder
    <3>6. QED
      BY <3>1, <3>2, <3>5
  <2>2. QED
    BY <1>4, <1>15, <2>1 DEF Ordered
<1>16. CASE ~(Before(a) /\ Before(b)) /\ ~(Behind(a) /\ Behind(b))
  <2>1. ASSUME NEW x \in 1..n + m - 1
        PROVE  \/ Before(x) /\ new[x].index < at /\ new[x].text[2] < lo
               \/ Behind(x) /\ new[x].index > at + m - 1 /\ new[x].text[1] > hi
               \/ Part(x)
    <3>1. CASE Behind(x)
      <4>1. PICK i \in Nat : i = chunks[x].index
        BY <1>5, <3>1
      <4>2. PICK j \in Nat : j = new[x].index
        BY <1>10
      <4>3. i > at /\ j = i + m - 1
        BY <3>1, <4>1, <4>2
      <4>4. j > at + m - 1
        BY <1>4, <1>13, <4>3
      <4>5. QED
        BY <3>1, <4>2, <4>4
    <3>2. QED
      BY <1>12, <3>1
  <2>2. PICK i \in Nat : i = new[a].index
    BY <1>8, <1>10
  <2>3. PICK j \in Nat : j = new[b].index
    BY <1>8, <1>10
  <2>4. PICK end \in Nat : end = new[a].text[2]
    BY <1>8, <1>10
  <2>5. PICK start \in Nat : start = new[b].text[1]
    BY <1>8, <1>10
  <2>6. \/ Before(a) /\ i < at /\ end < lo
        \/ Behind(a) /\ i > at + m - 1
        \/ \E k \in 1..m : i = at + k - 1 /\ end = lo + k - 1
    BY <1>8, <2>1, <2>2, <2>4
  <2>7. \/ Before(b) /\ j < at
        \/ Behind(b) /\ j > at + m - 1 /\ start > hi
        \/ \E k \in 1..m : j = at + k - 1 /\ start = lo + k - 1
    BY <1>8, <2>1, <2>3, <2>5
  <2>8. i < j
    BY <1>8, <2>2, <2>3
  <2> HIDE DEF Before, Behind
  <2>9. end < start
    BY <1>2, <1>4, <1>13, <1>16, <2>6, <2>7, <2>8
  <2>10. QED
    BY <2>4, <2>5, <2>9
<1>17. QED
  BY <1>14, <1>15, <1>16

LEMMA InitCalm == Init => CalmInv
<1> SUFFICES ASSUME Init PROVE CalmInv
  OBVIOUS
<1> DEFINE n == Len(Cuts)
<1>1. Cuts \in Seq(Text) /\ n \in Nat /\ DOMAIN Cuts = 1..n
  BY EmbedTaskAssumption, LenProperties
<1>2. \A k \in 1..n : chunks[k] = [index |-> k - 1, text |-> Cuts[k]]
  BY <1>1 DEF Init
<1>3. Ids = 1..n
  BY <1>1 DEF Init, Ids
<1>4. ASSUME NEW a \in Ids, NEW b \in Ids, chunks[a].index < chunks[b].index
      PROVE  chunks[a].text[2] < chunks[b].text[1]
  <2>1. /\ chunks[a].index = a - 1 /\ chunks[a].text = Cuts[a]
        /\ chunks[b].index = b - 1 /\ chunks[b].text = Cuts[b]
    <3>1. ASSUME NEW k \in 1..n PROVE chunks[k].index = k - 1 /\ chunks[k].text = Cuts[k]
      <4>1. chunks[k] = [index |-> k - 1, text |-> Cuts[k]]
        BY <1>2
      <4>2. QED
        BY <4>1
    <3>2. QED
      BY <1>3, <3>1
  <2>2. a - 1 < b - 1
    BY <1>4, <2>1, Zenon
  <2>3. a < b
    BY <1>1, <1>3, <2>2
  <2>4. Cuts[a][2] < Cuts[b][1]
    BY <1>1, <1>3, <2>3, EmbedTaskAssumption
  <2>5. QED
    BY <2>1, <2>4
<1>5. Ordered
  BY <1>4 DEF Ordered
<1>6. Alone /\ UpToDate /\ Embedded
  BY DEF Init, Alone, UpToDate, Embedded, Busy
<1>7. QED
  BY <1>5, <1>6 DEF CalmInv

(* A worker that is alone with the task leaves nobody at it.               *)
LEMMA AloneLeaves ==
  ASSUME TypeOK, Alone, NEW w \in Workers, Busy(w), Leave(w)
  PROVE  \A v \in Workers : ~Busy(v)'
<1>1. /\ pc'[w] = "idle" /\ \A v \in Workers \ {w} : pc'[v] = pc[v]
  BY DEF Leave, TypeOK
<1>2. \A v \in Workers \ {w} : pc[v] = "idle"
  BY DEF Alone, Busy
<1>3. QED
  BY <1>1, <1>2 DEF Busy

LEMMA StepCalm == EmbedInv /\ CalmInv /\ [Next]_vars => CalmInv'
<1> SUFFICES ASSUME EmbedInv, CalmInv, [Next]_vars, overruns' = 0
             PROVE  Alone' /\ Ordered' /\ UpToDate' /\ Embedded'
  BY DEF CalmInv
<1>1. TypeOK /\ IndexesDistinct /\ overruns \in Nat
  BY EmbedTaskAssumption DEF EmbedInv, TypeOK
<1>2. overruns = 0
  BY <1>1 DEF Next, Step, Lease, Load, EmbedChunk, Rechunk, Complete, Fail, Die, taskVars, vars
<1>3. Alone /\ Ordered /\ UpToDate /\ Embedded
  BY <1>2 DEF CalmInv
<1>4. ASSUME NEW w \in Workers, Lease(w) PROVE Alone' /\ Ordered' /\ UpToDate' /\ Embedded'
  <2>1. /\ status \in {"pending", "processing"} /\ status' = "processing"
        /\ pc' = [pc EXCEPT ![w] = "load"] /\ UNCHANGED chunks
    BY <1>4 DEF Lease
  <2>2. \A v \in Workers : ~Busy(v)
    BY <1>1, <1>2, <1>3, <1>4 DEF Lease, Alone
  <2>3. \A v \in Workers : pc'[v] = IF v = w THEN "load" ELSE "idle"
    BY <1>1, <2>1, <2>2 DEF TypeOK, Busy
  <2>4. Alone'
    BY <2>1, <2>3 DEF Alone, Busy
  <2>5. UpToDate'
    BY <2>3 DEF UpToDate
  <2>6. Ordered' /\ Embedded'
    BY <1>3, <2>1 DEF Ordered, Ids, Embedded
  <2>7. QED
    BY <2>4, <2>5, <2>6
<1>5. ASSUME NEW w \in Workers, Load(w) PROVE Alone' /\ Ordered' /\ UpToDate' /\ Embedded'
  <2>1. /\ pc[w] = "load" /\ todo' = [todo EXCEPT ![w] = Loaded]
        /\ pc' = [pc EXCEPT ![w] = "embed"]
        /\ UNCHANGED <<chunks, vectors, status>>
    BY <1>5 DEF Load, taskVars
  <2>2. Busy(w) /\ status = "processing" /\ \A v \in Workers : Busy(v) => v = w
    BY <1>3, <2>1 DEF Alone, Busy
  <2>3. \A v \in Workers : pc'[v] = IF v = w THEN "embed" ELSE "idle"
    BY <1>1, <2>1, <2>2 DEF TypeOK, Busy
  <2>4. todo'[w] = Loaded /\ Loaded' = Loaded
    BY <1>1, <2>1 DEF TypeOK, Loaded, Ids
  <2>5. ASSUME NEW id \in Ids PROVE \E c \in Loaded : c.id = id
    <3> DEFINE c == [id |-> id, index |-> chunks[id].index, text |-> chunks[id].text]
    <3>1. c \in Loaded /\ c.id = id
      BY DEF Loaded
    <3>2. QED
      BY <3>1
  <2>6. UpToDate'
    BY <2>1, <2>3, <2>4, <2>5 DEF UpToDate, Ids
  <2>7. Alone' /\ Ordered' /\ Embedded'
    BY <1>3, <2>1, <2>2, <2>3 DEF Alone, Busy, Ordered, Ids, Embedded
  <2>8. QED
    BY <2>6, <2>7
<1>6. ASSUME NEW w \in Workers, EmbedChunk(w) PROVE Alone' /\ Ordered' /\ UpToDate' /\ Embedded'
  <2>1. PICK c \in todo[w] :
          /\ IsCurrent(w, c)
          /\ PutVector(c.id, c.text)
          /\ todo' = [todo EXCEPT ![w] = @ \ {c}]
          /\ UNCHANGED <<chunks, pc, status>>
    BY <1>6 DEF EmbedChunk, taskVars
  <2>2. Busy(w) /\ pc[w] = "embed" /\ \A v \in Workers : Busy(v) => v = w
    BY <1>3, <2>1 DEF Alone, Busy, IsCurrent
  <2>3. DOMAIN vectors' = DOMAIN vectors \cup {c.id}
    BY <2>1 DEF PutVector
  <2>4. todo'[w] = todo[w] \ {c} /\ Loaded' = Loaded
    BY <1>1, <2>1 DEF TypeOK, Loaded, Ids
  <2>5. /\ todo[w] \subseteq Loaded
        /\ \A id \in Ids : id \in DOMAIN vectors \/ \E d \in todo[w] : d.id = id
    BY <1>3, <2>2 DEF UpToDate
  <2>6. \A id \in Ids : id \in DOMAIN vectors' \/ \E d \in todo'[w] : d.id = id
    BY <2>3, <2>4, <2>5
  <2>7. UpToDate'
    BY <2>1, <2>2, <2>4, <2>5, <2>6 DEF UpToDate, Busy, Ids
  <2>8. status = "processing"
    BY <1>3, <2>2 DEF Alone
  <2>9. Alone' /\ Ordered' /\ Embedded'
    BY <1>3, <2>1, <2>8 DEF Alone, Busy, Ordered, Ids, Embedded
  <2>10. QED
    BY <2>7, <2>9
<1>7. ASSUME NEW w \in Workers, Rechunk(w) PROVE Alone' /\ Ordered' /\ UpToDate' /\ Embedded'
  <2>1. PICK c \in todo[w] :
          /\ IsCurrent(w, c)
          /\ Len(Split(c.text)) > 1
          /\ chunks' = Spliced(c, Split(c.text))
          /\ pc' = [pc EXCEPT ![w] = "load"]
          /\ UNCHANGED <<vectors, status>>
    BY <1>7 DEF Rechunk, taskVars
  <2>2. Busy(w) /\ pc[w] = "embed" /\ \A v \in Workers : Busy(v) => v = w
    BY <1>3, <2>1 DEF Alone, Busy, IsCurrent
  <2>3. status = "processing"
    BY <1>3, <2>2 DEF Alone
  <2>4. \A v \in Workers : pc'[v] = IF v = w THEN "load" ELSE "idle"
    BY <1>1, <2>1, <2>2 DEF TypeOK, Busy
  <2>5. Alone' /\ UpToDate' /\ Embedded'
    BY <2>1, <2>2, <2>3, <2>4 DEF Alone, Busy, UpToDate, Embedded
  <2>6. c \in Record /\ c.text \in Text
    BY <1>1, <2>1 DEF TypeOK, Record
  <2>7. c.id \in Ids /\ chunks[c.id].index = c.index /\ chunks[c.id].text = c.text
    <3>1. c \in Loaded
      BY <1>3, <2>1, <2>2 DEF UpToDate
    <3>2. QED
      BY <3>1 DEF Loaded
  <2>8. chunks \in Seq(Row) /\ Split(c.text) \in Seq(Text)
    BY <1>1, <2>6, ChunkRows, SplitParts
  <2>9. Ids' = 1..Len(chunks) + Len(Split(c.text)) - 1
    BY <2>1, <2>6, <2>8, SplicedRows DEF Ids
  <2>10. ASSUME NEW a \in Ids', NEW b \in Ids', chunks'[a].index < chunks'[b].index
         PROVE  chunks'[a].text[2] < chunks'[b].text[1]
    BY <1>1, <1>3, <2>1, <2>6, <2>7, <2>8, <2>9, <2>10, SplitKeepsOrder
  <2>11. Ordered'
    BY <2>10 DEF Ordered
  <2>12. QED
    BY <2>5, <2>11
<1>8. ASSUME NEW w \in Workers, Complete(w) \/ Fail(w) \/ Die(w)
      PROVE  Alone' /\ Ordered' /\ UpToDate' /\ Embedded'
  <2>1. Leave(w) /\ Busy(w) /\ UNCHANGED <<chunks, vectors>>
    BY <1>8 DEF Complete, Fail, Die, Busy
  <2>2. \A v \in Workers : ~Busy(v)'
    BY <1>1, <1>3, <2>1, AloneLeaves
  <2>3. Alone' /\ UpToDate' /\ Ordered'
    BY <1>3, <2>1, <2>2 DEF Alone, UpToDate, Ordered, Ids, Busy
  <2>4. CASE Complete(w)
    <3>1. \A id \in Ids : id \in DOMAIN vectors
      BY <1>3, <2>4 DEF Complete, UpToDate
    <3>2. DOMAIN vectors \subseteq Ids
      BY <1>1 DEF TypeOK
    <3>3. QED
      BY <2>1, <2>3, <3>1, <3>2 DEF Embedded, Ids
  <2>5. CASE Fail(w) \/ Die(w)
    <3>1. status' # "completed"
      BY <1>3, <2>1, <2>5 DEF Fail, Die, Alone, taskVars
    <3>2. QED
      BY <2>3, <3>1 DEF Embedded
  <2>6. QED
    BY <1>8, <2>4, <2>5
<1>9. CASE UNCHANGED vars
  BY <1>3, <1>9 DEF vars, taskVars, Alone, Busy, Ordered, UpToDate, Embedded, Ids, Loaded
<1>10. QED
  BY <1>4, <1>5, <1>6, <1>7, <1>8, <1>9 DEF Next, Step

LEMMA CalmInvariant == Spec => []CalmInv
  BY InitCalm, StepCalm, EmbedInvariant, PTL DEF Spec

(* While no lease runs out under a live worker, the chunks in the order of *)
(* their index spell the document, however often and wherever it is split. *)
THEOREM ChunksStayInOrder == Spec => []ChunksSpellDocument
<1>1. CalmInv /\ NoTextLost => ChunksSpellDocument
  BY DEF CalmInv, Ordered, ChunksSpellDocument
<1>2. QED
  BY <1>1, CalmInvariant, TextIsNeverLost, PTL

(* ... and a task that is marked completed has a vector for every chunk.   *)
THEOREM CompletedHasVectors == Spec => []CompletedIsSearchable
<1>1. CalmInv => CompletedIsSearchable
  BY DEF CalmInv, Embedded, CompletedIsSearchable
<1>2. QED
  BY <1>1, CalmInvariant, PTL
=============================================================================
