---------------------------- MODULE RowGroupFeed ----------------------------
(***************************************************************************)
(* The bar feed over Parquet files that buffers one row group at a time.     *)
(* A file is a sequence of batches, a batch the rows it holds and whether it *)
(* can be read and decoded; a file may be gone when it is opened again.      *)
(***************************************************************************)
EXTENDS Integers, Sequences, SequencesExt

CONSTANTS
    Directories,    \* what is loaded: sequences of files, these sequences of [rows, ok]
    MaxReads        \* bound on calls

ASSUME RowGroupAssumption == MaxReads \in Nat

VARIABLES
    files,          \* what was loaded
    feed,           \* the struct: [batches, buf, cursor, len, done]
    yielded,        \* ghost: rows returned since the last successful reset
    ended,          \* ghost: whether the last call of next returned None
    reads           \* bound

rgVars == <<files, feed, yielded, ended, reads>>

\* What refill stops at: a batch that cannot be read is skipped, and so is one
\* without rows.
Usable(b) == b.ok /\ b.rows # <<>>

\* refill: the next row group with rows in it, or done.
RefillRows(f) ==
    LET i == SelectInSeq(f.batches, Usable)
    IN  IF i = 0
        THEN [f EXCEPT !.batches = <<>>, !.done = TRUE, !.len = 0]
        ELSE [batches |-> SubSeq(f.batches, i + 1, Len(f.batches)), buf |-> f.batches[i].rows,
              cursor |-> 0, len |-> Len(f.batches[i].rows), done |-> f.done]

\* open_readers and the first refill, by load_many and by reset.
Opened == RefillRows([batches |-> FlattenSeq(files), buf |-> <<>>, cursor |-> 0, len |-> 0, done |-> FALSE])

\* len(): the rows the metadata counts, readable or not.
RowGroupLen == FoldLeft(LAMBDA n, b : n + Len(b.rows), 0, FlattenSeq(files))

RowGroupInit ==
    /\ files \in Directories
    /\ feed = Opened
    /\ yielded = <<>> /\ ended = FALSE /\ reads = 0

Counted == reads < MaxReads /\ reads' = reads + 1 /\ UNCHANGED files

\* next.
RowNext ==
    /\ Counted
    /\ LET f == IF feed.cursor >= feed.len /\ ~feed.done THEN RefillRows(feed) ELSE feed
       IN  IF f.cursor >= f.len
           THEN feed' = f /\ ended' = TRUE /\ yielded' = yielded
           ELSE /\ feed' = [f EXCEPT !.cursor = @ + 1]
                /\ ended' = FALSE
                /\ yielded' = Append(yielded, f.buf[f.cursor + 1])

\* reset: nothing happens when a file cannot be opened.
RowReset ==
    /\ Counted
    /\ \/ feed' = Opened /\ yielded' = <<>> /\ ended' = FALSE
       \/ UNCHANGED <<feed, yielded, ended>>

RowGroupNext == RowNext \/ RowReset

RowGroupSpec == RowGroupInit /\ [][RowGroupNext]_rgVars

-----------------------------------------------------------------------------
(* Properties                                                              *)

GoodRows == FlattenSeq([i \in DOMAIN SelectSeq(FlattenSeq(files), Usable) |->
                           SelectSeq(FlattenSeq(files), Usable)[i].rows])

\* The feed returns the rows of all the batches that can be read, in file order
\* and each once, over the bounds of row groups and files and after a reset; it
\* ends only behind the last of them.
RowsInOrder ==
    /\ IsPrefix(yielded, GoodRows)
    /\ ended => yielded = GoodRows
    /\ Len(yielded) <= RowGroupLen
=============================================================================
