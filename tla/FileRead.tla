------------------------------ MODULE FileRead ------------------------------
(* file_read: readFilesSafely of runtime/file-read.ts, a batch of reads of    *)
(* one file by a few workers under a deadline.  A text read hashes the stream *)
(* its lines come from; an AST read hashes the file and reads it again.  An   *)
(* editor may append to the file or put a new one in its place at any time.   *)
EXTENDS Integers, Sequences, SequencesExt, FiniteSets

CONSTANTS Batches,    \* sequences of [mode, lines, maxBytes]
          Files,      \* what the file may hold: bytes "c", "n" (a newline), "x" (a syntax error)
          Additions,  \* what an editor may append
          Replacements, \* what an editor may put in its place
          Workers,    \* the workers of mapConcurrently (4)
          Chunk,      \* bytes a stream yields at a time (FILE_HASH_CHUNK_BYTES)
          MaxEdits    \* bound: steps of editors

VARIABLES batch,
          inodes, current,  \* the files there have been, which of them the path names
          reads,    \* the read of each request
          next, at, \* mapConcurrently: the next request, the one each worker is at (0: none)
          call,     \* running, answered, failed or aborted
          edits

vars == <<batch, inodes, current, reads, next, at, call, edits>>

Bytes == inodes[current]

NoRead == [step |-> "waiting", size |-> 0, inode |-> 0, hashed |-> <<>>, digest |-> <<>>,
           collecting |-> TRUE, read |-> 0, line |-> 0, got |-> <<>>, stopped |-> FALSE,
           more |-> FALSE, truncated |-> FALSE]

Init == /\ batch \in Batches /\ inodes \in {<<f>> : f \in Files} /\ current = 1
        /\ reads = [k \in DOMAIN batch |-> NoRead]
        /\ next = 1 /\ at = [w \in Workers |-> 0] /\ call = "running" /\ edits = 0

(* One worker's step, unless its signal has been aborted.                     *)
Step(w, from, read) ==
    /\ call = "running" /\ at[w] # 0 /\ reads[at[w]].step = from
    /\ reads' = [reads EXCEPT ![at[w]] = read]
    /\ UNCHANGED <<batch, inodes, current, next, at, call, edits>>

Take(w) ==
    /\ call = "running" /\ next <= Len(batch)
    /\ at[w] # 0 => reads[at[w]].step = "done"
    /\ at' = [at EXCEPT ![w] = next] /\ next' = next + 1
    /\ reads' = [reads EXCEPT ![next].step = "stat"]
    /\ UNCHANGED <<batch, inodes, current, call, edits>>

(* A worker's read throws, and with it the batch.                             *)
Fail(w, from) ==
    /\ call = "running" /\ at[w] # 0 /\ reads[at[w]].step = from
    /\ call' = "failed"
    /\ UNCHANGED <<batch, inodes, current, reads, next, at, edits>>

Stat(w) == Step(w, "stat", [reads[at[w]] EXCEPT !.step = "inspect", !.size = Len(Bytes)])

Parseable(bytes) == "x" \notin ToSet(bytes)

(* inspectFileCapabilities reads the file once more, for what it can be.      *)
ResolveReadMode(mode) == IF mode # "auto" THEN mode ELSE IF Parseable(Bytes) THEN "ast" ELSE "text"

Inspect(w) ==
    \E mode \in {"ast", "text"} :
       /\ at[w] # 0 /\ mode = ResolveReadMode(batch[at[w]].mode)
       /\ IF mode = "ast" /\ ~Parseable(Bytes) THEN Fail(w, "inspect")
          ELSE Step(w, "inspect", [reads[at[w]] EXCEPT !.step = IF mode = "ast" THEN "digest" ELSE "open"])

-----------------------------------------------------------------------------
(* Mutant: the file is read before it is hashed.                              *)
SourceFirst(w) ==
    \/ Step(w, "digest", [reads[at[w]] EXCEPT !.step = "source", !.got = Bytes])
    \/ Step(w, "source", [reads[at[w]] EXCEPT !.step = "done", !.digest = Bytes])

(* sha256File and then the read whose text is parsed.                         *)
ReadAst(w) ==
    \/ Step(w, "digest", [reads[at[w]] EXCEPT !.step = "source", !.digest = Bytes])
    \/ Step(w, "source", [reads[at[w]] EXCEPT !.step = "done", !.got = Bytes])

-----------------------------------------------------------------------------
(* LineRangeCollector.consume, byte by byte: a line that does not fit is cut, *)
(* and what follows the last line in its chunk is only noticed.               *)
Consume(r, k, chunk) ==
    FoldLeft(LAMBDA c, b :
        LET wanted == c.line >= batch[k].lines[1] /\ c.line < batch[k].lines[2]
            line   == IF b = "n" THEN c.line + 1 ELSE c.line
        IN IF c.stopped THEN [c EXCEPT !.more = TRUE]
           ELSE IF wanted /\ Len(c.got) = batch[k].maxBytes
           THEN [c EXCEPT !.stopped = TRUE, !.more = TRUE, !.truncated = TRUE]
           ELSE [c EXCEPT !.got = IF wanted THEN Append(@, b) ELSE @, !.line = line,
                          !.stopped = line >= batch[k].lines[2]],
        r, chunk)

Open(w) == Step(w, "open", [reads[at[w]] EXCEPT !.step = "chunk", !.inode = current])

(* A chunk is counted as long as lines are collected.                         *)
Collected(r, k, chunk) ==
    IF ~r.collecting THEN r
    ELSE LET c == Consume(r, k, chunk) IN [c EXCEPT !.read = @ + Len(chunk), !.collecting = ~c.stopped]

ReadChunk(w) ==
    LET k == at[w]
        r == reads[k]
        rest  == SubSeq(inodes[r.inode], Len(r.hashed) + 1, Len(inodes[r.inode]))
        chunk == SubSeq(rest, 1, IF Len(rest) < Chunk THEN Len(rest) ELSE Chunk)
    IN /\ k # 0 /\ r.step = "chunk" /\ rest # <<>>
       /\ Step(w, "chunk", [Collected(r, k, chunk) EXCEPT !.hashed = @ \o chunk])

EndOfStream(w) ==
    LET r == reads[at[w]]
    IN /\ at[w] # 0 /\ r.step = "chunk" /\ Len(r.hashed) = Len(inodes[r.inode])
       /\ Step(w, "chunk", [r EXCEPT !.step = "done", !.digest = r.hashed])

(* LineRangeCollector.result.  Mutant: only what follows in the chunk counts. *)
HasMoreInChunk(r) == r.truncated \/ r.more

HasMore(r) == r.truncated \/ r.more \/ r.read < r.size

Returned(k, r) ==
    <<batch[k].lines[1],
      batch[k].lines[1] + Len(SelectSeq(r.got, LAMBDA b : b = "n"))
                        + (IF r.got # <<>> /\ Last(r.got) # "n" THEN 1 ELSE 0)>>

-----------------------------------------------------------------------------
Answer ==
    /\ call = "running" /\ \A k \in DOMAIN batch : reads[k].step = "done"
    /\ call' = "answered"
    /\ UNCHANGED <<batch, inodes, current, reads, next, at, edits>>

(* The deadline passes, or the caller gives up.                               *)
Abort == /\ call = "running" /\ call' = "aborted"
         /\ UNCHANGED <<batch, inodes, current, reads, next, at, edits>>

Edit ==
    /\ call = "running" /\ edits < MaxEdits /\ edits' = edits + 1
    /\ \/ \E a \in Additions : inodes' = [inodes EXCEPT ![current] = @ \o a] /\ UNCHANGED current
       \/ \E f \in Replacements : inodes' = Append(inodes, f) /\ current' = Len(inodes) + 1
    /\ UNCHANGED <<batch, reads, next, at, call>>

Ended == call # "running" /\ UNCHANGED vars

Next ==
    \/ \E w \in Workers : \/ Take(w) \/ Stat(w) \/ Inspect(w) \/ ReadAst(w)
                          \/ Open(w) \/ ReadChunk(w) \/ EndOfStream(w)
    \/ Answer \/ Abort \/ Edit \/ Ended

Spec == Init /\ [][Next]_vars

-----------------------------------------------------------------------------
(* The bytes of the lines from the first one asked for.                       *)
LineOf(bytes, n) == Cardinality({m \in 1 .. n - 1 : bytes[m] = "n"})

From(bytes, first) == SelectSeq([n \in DOMAIN bytes |-> n], LAMBDA n : LineOf(bytes, n) >= first)

Wanted(k, bytes) ==
    LET lines == SelectSeq(From(bytes, batch[k].lines[1]), LAMBDA n : LineOf(bytes, n) < batch[k].lines[2])
        kept  == SubSeq(lines, 1, IF Len(lines) < batch[k].maxBytes THEN Len(lines) ELSE batch[k].maxBytes)
    IN [n \in DOMAIN kept |-> bytes[kept[n]]]

IsText(k) == reads[k].inode # 0

(* However the stream is cut into chunks and whatever editors do: a text read *)
(* returns the lines asked for of the very bytes its hash covers, and if the  *)
(* file is as long as when it was looked at, says whether more lines follow.  *)
PagesAreRight ==
    \A k \in DOMAIN batch : reads[k].step = "done" /\ IsText(k) =>
       LET bytes == reads[k].digest
       IN /\ reads[k].got = Wanted(k, bytes)
          /\ Len(bytes) = reads[k].size =>
                (HasMore(reads[k]) <=> Len(From(bytes, batch[k].lines[1])) > Len(reads[k].got))
          /\ reads[k].got # <<>> =>
                Returned(k, reads[k])[2] = 1 + LineOf(bytes, From(bytes, batch[k].lines[1])[Len(reads[k].got)])

(* A client that changes the file under the hash of a read has seen what it   *)
(* changes: while the file has that hash, it holds what was returned.         *)
HashGuardsWhatWasRead ==
    \A k \in DOMAIN batch : reads[k].step = "done" /\ ~IsText(k) /\ Bytes = reads[k].digest =>
       reads[k].got = Bytes

(* A batch is answered only once every request was read, each by one worker.  *)
ReadsAreSound ==
    /\ PagesAreRight /\ HashGuardsWhatWasRead
    /\ call = "answered" => \A k \in DOMAIN batch : reads[k].step = "done"
    /\ \A v, w \in Workers : v # w /\ at[v] # 0 => at[v] # at[w]
=============================================================================
