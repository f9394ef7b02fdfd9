------------------------------- MODULE Sinks -------------------------------
(***************************************************************************)
(* The sink of an extraction, parquet.py: a writer that appends to a       *)
(* buffer, and the stream that reads the buffer between two awaits and     *)
(* hands what it read to the response.  A chunk of bytes is                *)
(*   the head      what the writer puts at the beginning of a file,        *)
(*   a batch       the set of rows of one record batch,                    *)
(*   the footer    the end of a file, with the box of all its rows.        *)
(* A row has the set `geom` of the longitudes it reaches.  Latitudes are   *)
(* treated in the same way and left out; an Arrow file has no box.         *)
(***************************************************************************)
EXTENDS Integers, Sequences, FiniteSetsExt

VARIABLES
    buffer,     \* Sink.buffer, what the writer wrote since it was read last
    body,       \* what the response was given
    bounds      \* the west and the east edge, {} while they are infinite

sinkVars == <<buffer, body, bounds>>

Batch(rows) == [part |-> "batch", rows |-> rows, box |-> {}]
Footer(box) == [part |-> "footer", rows |-> {}, box |-> box]
FileHead == [part |-> "head", rows |-> {}, box |-> {}]

Rows(chunks) == UNION {chunks[i].rows : i \in DOMAIN chunks}

(* The least and the greatest element, which of no elements are infinite.  *)
Hull(S) == IF S = {} THEN {} ELSE {Min(S), Max(S)}

Reach(rows) == UNION {r.geom : r \in rows}

SinkInit == buffer = <<>> /\ body = <<>> /\ bounds = {}

OpenSink ==
    /\ buffer' = <<FileHead>>
    /\ UNCHANGED <<body, bounds>>

(* read_bytes, after the writer has added `more`.                          *)
ReadBytes(more) ==
    /\ body' = body \o buffer \o more
    /\ buffer' = <<>>

(* Mutation: the box is that of the batch written last.                    *)
AppendBatch_LastBox(rows) ==
    /\ ReadBytes(<<Batch(rows)>>)
    /\ bounds' = Hull(Reach(rows))

(* write_batch_ of a sink.                                                 *)
AppendBatch(rows) ==
    /\ ReadBytes(<<Batch(rows)>>)
    /\ bounds' = Hull(bounds \cup Reach(rows))

(* write_batch: no rows are no bytes, and the buffer is not read.          *)
WriteBatch(rows) ==
    IF rows = {} THEN UNCHANGED sinkVars ELSE AppendBatch(rows)

(* The end of the `with`, and the read after it.                           *)
CloseSink ==
    /\ ReadBytes(<<Footer(bounds)>>)
    /\ UNCHANGED bounds

(* The `with` is left by an exception: the footer is written, nobody reads.*)
AbortSink ==
    /\ buffer' = Append(buffer, Footer(bounds))
    /\ UNCHANGED <<body, bounds>>
-----------------------------------------------------------------------------
SinkTypeOK(Row) ==
    LET Chunk == [part: {"head", "batch", "footer"}, rows: SUBSET Row,
                  box: SUBSET Int]
    IN  /\ buffer \in Seq(Chunk) /\ body \in Seq(Chunk)
        /\ bounds \subseteq Int

(* A whole file has its head first, its footer last, batches in between,   *)
(* and in the footer the box of all its rows.                              *)
WholeFile(chunks) ==
    /\ Len(chunks) >= 2
    /\ \A i \in DOMAIN chunks :
          /\ chunks[i].part = "head" <=> i = 1
          /\ chunks[i].part = "footer" <=> i = Len(chunks)
    /\ chunks[Len(chunks)].box = Hull(Reach(Rows(chunks)))
=============================================================================
