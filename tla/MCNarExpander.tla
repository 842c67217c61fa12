--------------------------- MODULE MCNarExpander ---------------------------
(* Instances of NarExpander for TLC. *)
EXTENDS NarExpander, TLC

Xz(size, streams, filters) ==
    [kind |-> "xz", size |-> size, packed |-> [algo |-> "xz", streams |-> streams, filters |-> filters]]
Gz(size, streams) ==
    [kind |-> "xz", size |-> size, packed |-> [algo |-> "gz", streams |-> streams, filters |-> <<>>]]
Lzma == [id |-> "lzma2", prop |-> 20]
Delta(prop) == [id |-> "delta", prop |-> prop]

\* A directory, a file of one byte, a compressed file larger when uncompressed,
\* and one larger than the buffer.
Files == {[kind |-> "dir", size |-> 0], [kind |-> "file", size |-> 1],
          Xz(1, <<<<2>>>>, <<Lzma>>), Xz(5, <<<<6>>>>, <<Lzma>>)}

\* Two streams, two blocks, a distance of 1 and of 256, an unknown dictionary;
\* no contents; two members, contents larger than the number for their size, and
\* a name in the header.
OddFiles ==
    {Xz(2, <<<<1>>, <<2>>>>, <<Lzma>>), Xz(2, <<<<1, 2>>>>, <<Lzma>>),
     Xz(1, <<<<2>>>>, <<Delta(0), Lzma>>), Xz(1, <<<<2>>>>, <<Delta(255), Lzma>>),
     Xz(1, <<<<2>>>>, <<[id |-> "lzma2", prop |-> 41]>>),
     Xz(1, <<<<>>>>, <<>>), [Gz(1, <<<<3>>>>) EXCEPT !.packed.filters = <<[id |-> "other", prop |-> 0]>>],
     Gz(1, <<<<3>>>>), Gz(1, <<<<1>>, <<1>>>>), Gz(2, <<<<9>>>>)}

\* All nars of up to three of the first, and of up to two of all.
ShortNars == BoundedSeq(Files, 3) \cup BoundedSeq(Files \cup OddFiles, 2)
=============================================================================
