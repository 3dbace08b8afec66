------------------------------- MODULE RawParts -------------------------------
(***************************************************************************)
(* The raw recording on disk: BinaryRawFrameWriter and RawReplayReader of  *)
(* src/storage/binary_storage.cpp. A recording is a sequence of numbered   *)
(* parts, each created at its full size (preallocate_raw_parts, which      *)
(* nothing clears), filled with whole blocks, and cut to the bytes written *)
(* when it is closed. Every operation of the writer is a set of outcomes,  *)
(* one of them good; what is read back is an operator of the files.        *)
(***************************************************************************)
EXTENDS Integers, Sequences

CONSTANT PartBlocks  \* blocks a part may hold (split_file_size_gb)

ASSUME PartsAssumption == PartBlocks \in Nat \ {0}

\* What follows the last whole block of a part: nothing, preallocated space, or
\* bytes that are not a block. "torn" without blocks is a part without its header.
Tails == {"clean", "padded", "torn"}

\* stream is the open part; a stream that failed once stays bad.
Files == [parts : Seq([blocks : Nat, tail : Tails]),
          listed : Nat,  \* data_files
          stream : {"closed", "good", "bad"}]

NoFiles == [parts |-> <<>>, listed |-> 0, stream |-> "closed"]

Done(f) == [ok |-> TRUE, file |-> f]
Fails(f) == [ok |-> FALSE, file |-> f]
Good(outcomes) == {o.file : o \in {x \in outcomes : x.ok}}
Bad(outcomes) == {x \in outcomes : ~x.ok}

Current(f) == f.parts[Len(f.parts)]
WithCurrent(f, part) == [f EXCEPT !.parts[Len(f.parts)] = part]

\* Mutant: a closed part keeps the space it was given.
ClosedUncut(f) ==
  CASE f.stream = "closed" -> {Done(f)}
    [] f.stream = "bad" -> {Fails(f)}
    [] f.stream = "good" -> {Done([f EXCEPT !.stream = "closed"]),
                             Fails([f EXCEPT !.stream = "bad"])}

\* closePart: the flush or the truncation may fail.
Closed(f) ==
  CASE f.stream = "closed" -> {Done(f)}
    [] f.stream = "bad" -> {Fails(f)}
    [] f.stream = "good" ->
         {Done([WithCurrent(f, [Current(f) EXCEPT !.tail = "clean"])
                  EXCEPT !.stream = "closed"]),
          Fails([f EXCEPT !.stream = "bad"]),
          Fails([f EXCEPT !.stream = "closed"])}

\* openPart: the file may not come into being, or stay without its size or header.
Opened(f) ==
  LET new(part, stream) == [f EXCEPT !.parts = Append(@, part), !.stream = stream]
      headless == [blocks |-> 0, tail |-> "torn"]
  IN {Done([new([blocks |-> 0, tail |-> "padded"], "good") EXCEPT !.listed = @ + 1]),
      Fails(f), Fails(new(headless, "closed")), Fails(new(headless, "bad"))}

\* writeRawBlock and the periodic flush, which may fail on a block already counted;
\* a block that breaks the stream's contract is refused before anything is written.
Appended(f) ==
  LET grown == WithCurrent(f, [Current(f) EXCEPT !.blocks = @ + 1]) IN
  {Done(grown), Fails(f),
   Fails([grown EXCEPT !.stream = "bad"]),
   Fails([WithCurrent(f, [Current(f) EXCEPT !.tail = "torn"]) EXCEPT !.stream = "bad"])}

NeedsSplit(f) == Current(f).blocks >= PartBlocks

\* writeBatch: parts are split between blocks, unless the block is refused first.
BatchWritten(f) ==
  IF ~NeedsSplit(f) THEN Appended(f)
  ELSE LET closed == Closed(f)
           opened == UNION {Opened(g) : g \in Good(closed)}
       IN {Fails(f)} \cup Bad(closed) \cup Bad(opened) \cup UNION {Appended(g) : g \in Good(opened)}

-----------------------------------------------------------------------------
(* readNextBatch and openNextPart: blocks are read part after part until a *)
(* tail that is not a block, or until there is no file with the next       *)
(* number.                                                                 *)

Replay(f) ==
  LET from[i \in 1..(Len(f.parts) + 1)] ==
        IF i > Len(f.parts) THEN [blocks |-> 0, end |-> "EndOfStream"]
        ELSE IF f.parts[i].tail # "clean"
          THEN [blocks |-> f.parts[i].blocks, end |-> "Error"]
          ELSE [from[i + 1] EXCEPT !.blocks = @ + f.parts[i].blocks]
  IN from[1]

BlocksWritten(f) ==
  LET upTo[i \in 0..Len(f.parts)] ==
        IF i = 0 THEN 0 ELSE upTo[i - 1] + f.parts[i].blocks
  IN upTo[Len(f.parts)]
=============================================================================
