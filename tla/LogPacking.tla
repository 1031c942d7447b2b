----------------------------- MODULE LogPacking -----------------------------
(***************************************************************************)
(* How the sender turns the unsent lines of the log files into one packet: *)
(* pack_data_from_files (4G) and main_pack_pending_until (BeiDou).         *)
(*                                                                         *)
(* A file is a sequence of lines and an offset counts the lines before it. *)
(* A line has the fields len (bytes of payload that parse_log_line finds)  *)
(* and frame (the number after "F=").  A packing is the function that      *)
(* gives each file its offset after the packet; both packers scan the      *)
(* files in order and take lines greedily, so there is exactly one.        *)
(***************************************************************************)
EXTENDS Naturals, Sequences, FiniteSetsExt

CONSTANTS NPaths,   \* number of log files (MAIN_PATH_COUNT)
          Hex4G,    \* EG_MAX_HEX_LEN: hex digits and commas of a 4G packet
          Raw4G,    \* sizeof(raw_data): bytes of a 4G packet
          HexBD,    \* BD_MAX_HEX_LEN
          RawBD     \* BD_MAX_RAW_LEN

ASSUME PackingAssumption ==
    /\ NPaths \in Nat \ {0}
    /\ {Hex4G, Raw4G, HexBD, RawBD} \subseteq Nat

Path == 1..NPaths

\* A line the packers accept: two bytes of payload or more.
Valid(line) == line.len >= 2

\* Mutant: the first line behind the offset is passed over.
EntriesWithoutFirst(logs, from, to, p) ==
    {e \in UNION {{q} \X (from[q] + 2 .. to[q]) : q \in 1..p} :
        Valid(logs[e[1]][e[2]])}

\* The entries <<q, i>> a packet takes from the files 1..p when their offsets
\* move from "from" to "to".
Entries(logs, from, to, p) ==
    {e \in UNION {{q} \X (from[q] + 1 .. to[q]) : q \in 1..p} :
        Valid(logs[e[1]][e[2]])}

Bytes(logs, entries) ==
    MapThenSumSet(LAMBDA e : logs[e[1]][e[2]].len, entries)

Commas(entries) == IF entries = {} THEN 0 ELSE Cardinality(entries) - 1

HexLen(logs, entries) == 2 * Bytes(logs, entries) + Commas(entries)

\* data_separator copies each comma of the hex text into the packet as a byte.
RawLen(logs, entries) == Bytes(logs, entries) + Commas(entries)

\* The hex limit alone decides what a 4G packet takes...
Fits4G(logs, entries) == HexLen(logs, entries) <= Hex4G

\* ...while a BeiDou packet is also held to its size in bytes.
FitsBD(logs, entries) ==
    /\ HexLen(logs, entries) <= HexBD
    /\ RawLen(logs, entries) <= RawBD

\* Lines after offset n that lie below both the end of the file and limit.
Reach(logs, p, n, limit) ==
    n .. (IF limit < Len(logs[p]) THEN limit ELSE Len(logs[p]))

\* A 4G offset stops after the last line taken; an invalid line is passed
\* only when a valid one behind it is taken as well.
Packings4G(logs, offs) ==
    LET Here(p) == {offs[p]} \cup Reach(logs, p, offs[p], Len(logs[p]))
        Taken(to, p) == Entries(logs, offs, to, p)
    IN  {to \in [Path -> UNION {Here(p) : p \in Path}] :
            \A p \in Path :
                /\ to[p] \in Here(p)
                /\ to[p] # offs[p] => Valid(logs[p][to[p]])
                /\ Fits4G(logs, Taken(to, p))
                /\ \A j \in to[p] + 1 .. Len(logs[p]) :
                      \/ ~Valid(logs[p][j])
                      \/ \E i \in to[p] + 1 .. j - 1 : Valid(logs[p][i])
                      \/ ~Fits4G(logs, Taken(to, p) \cup {<<p, j>>})}

\* A BeiDou packet stays below the batch end, passes invalid lines, and stops
\* at the first valid line that does not fit.
PackingsBD(logs, offs, ends) ==
    LET Here(p) == {offs[p]} \cup Reach(logs, p, offs[p], ends[p])
        Taken(to, p) == Entries(logs, offs, to, p)
    IN  {to \in [Path -> UNION {Here(p) : p \in Path}] :
            \A p \in Path :
                /\ to[p] \in Here(p)
                /\ FitsBD(logs, Taken(to, p))
                /\ to[p] + 1 \in Here(p) =>
                      /\ Valid(logs[p][to[p] + 1])
                      /\ ~FitsBD(logs, Taken(to, p) \cup {<<p, to[p] + 1>>})}

\* The lines a packet carries.
PacketLines(logs, from, to) ==
    {logs[e[1]][e[2]] : e \in Entries(logs, from, to, NPaths)}

\* Mutant: a batch that just reached its end is not over.
OffsetsPassed(offs, ends) == \A p \in Path : offs[p] > ends[p]

\* offsets_reached
OffsetsReached(offs, ends) == \A p \in Path : offs[p] >= ends[p]
=============================================================================
