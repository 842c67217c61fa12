----------------------------- MODULE Compressed -----------------------------
(***************************************************************************)
(* Compressed files, as far as the nar expander looks into them (parseXz    *)
(* and the last bytes of a gz file, narexpander.go), and what xz and gzip,  *)
(* which are not part of the repository, make of them and of the options    *)
(* it gives them.                                                           *)
(***************************************************************************)
EXTENDS Naturals, Sequences, SequencesExt

CONSTANT GzModulus  \* 2^32: the contents' size is stored modulo that

\* One or more streams ("members" of gz), each of blocks of so many bytes, and
\* the filters of the first block.  A filter has a byte of properties: the size
\* of the dictionary of lzma2, the distance of delta less one, and the start of
\* an executable filter ("bcj"), that is in fact longer.  A gz file has "other"
\* when its header says more than gzip -n writes.
Byte == 0..255
Filter == [id : {"lzma2", "delta", "bcj", "other"}, prop : Byte]
Packed == [algo : {"xz", "gz"}, streams : Seq(Seq(Nat)) \ {<<>>}, filters : Seq(Filter)]

ASSUME CompressedAssumption == GzModulus \in Nat \ {0}

Total(sizes) ==
    LET total[i \in 0..Len(sizes)] == IF i = 0 THEN 0 ELSE total[i - 1] + sizes[i]
    IN  total[Len(sizes)]

\* What xz -dc and gzip -dc give: the contents of all streams.
Contents(f) == Total([i \in DOMAIN f.streams |-> Total(f.streams[i])])

\* What the expander reads: the index of the last stream, the end of the last
\* member.
Announced(f) ==
    IF f.algo = "xz" THEN Total(Last(f.streams)) ELSE Total(Last(f.streams)) % GzModulus

Honest(f) == Announced(f) = Contents(f)

Dict(prop) == prop % 64

\* Other files are passed through as they are.
Understood(f) ==
    /\ f.algo = "gz" => f.filters = <<>>
    /\ \A i \in DOMAIN f.filters : f.filters[i].id = "lzma2" => Dict(f.filters[i].prop) <= 40

\* Mutant: the distance is taken for the byte that stands for it.
OptionRaw(filter) ==
    CASE filter.id = "lzma2" -> [id |-> "lzma2", arg |-> Dict(filter.prop)]
      [] filter.id = "delta" -> [id |-> "delta", arg |-> filter.prop]
      [] filter.id = "bcj"   -> [id |-> "bcj", arg |-> 0]

\* The option for a filter; the distance is computed in a byte, the start of an
\* executable filter left out.
Option(filter) ==
    CASE filter.id = "lzma2" -> [id |-> "lzma2", arg |-> Dict(filter.prop)]
      [] filter.id = "delta" -> [id |-> "delta", arg |-> (filter.prop + 1) % 256]
      [] filter.id = "bcj"   -> [id |-> "bcj", arg |-> 0]

\* Those for a file; an unknown filter has none.
Options(f) ==
    LET options[i \in 0..Len(f.filters)] ==
            IF i = 0 THEN <<>>
            ELSE options[i - 1] \o
                 IF f.filters[i].id = "other" THEN <<>> ELSE <<Option(f.filters[i])>>
    IN  options[Len(f.filters)]

\* What xz -c makes of the options; it refuses a distance of 0.
Refused(options) == \E i \in DOMAIN options : options[i].id = "delta" /\ options[i].arg = 0
Filters(options) ==
    [i \in DOMAIN options |->
        [id |-> options[i].id, prop |-> options[i].arg - IF options[i].id = "delta" THEN 1 ELSE 0]]

\* Compressing the contents again gives the same file when they were one block
\* at most, of one stream, compressed with these filters (and all that neither
\* the file nor the options tell, as the levels are, by default).
SameAgain(f) ==
    /\ Len(f.streams) = 1
    /\ f.algo = "xz" => /\ Len(f.streams[1]) <= 1
                        /\ ~Refused(Options(f)) /\ Filters(Options(f)) = f.filters

\* The bytes that may come of compressing the contents of a file of that size:
\* none at all, or as many more or less as the options differ.
Recompressed(f, size) ==
    CASE SameAgain(f) -> {size}
      [] f.algo = "xz" /\ Refused(Options(f)) -> {0}
      [] OTHER -> {size - 1, size, size + 1}

\* The files that come through, by their format.
Plain(f) ==
    /\ Len(f.streams) = 1
    /\ IF f.algo = "gz" THEN Contents(f) < GzModulus
       ELSE /\ Len(f.streams[1]) <= 1
            /\ \A i \in DOMAIN f.filters :
                LET filter == f.filters[i] IN
                \/ filter.id = "lzma2" /\ filter.prop <= 40
                \/ filter.id = "delta" /\ filter.prop < 255
                \/ filter.id = "bcj" /\ filter.prop = 0
=============================================================================
