----------------------------- MODULE PcdLoader -----------------------------
(***************************************************************************)
(* The reader of offline point clouds (src/pointcloud/pcd_loader.rs), as   *)
(* operators that PcdViewer's worker applies record by record.             *)
(*                                                                         *)
(* A file is what the pcd_rs library makes of it: the encoding, the number *)
(* of points its header declares, the fields with their COUNT and kind and *)
(* the index of each (padding removed), and the records.  A record reads   *)
(* well or fails or makes the library panic, its coordinates are all       *)
(* finite or not, and its value is what its colour comes from: packed      *)
(* bits, channels, intensity or z, one number here.                        *)
(*                                                                         *)
(* The file is opened once for the header and once more for the records,   *)
(* and need not have the same fields then.                                 *)
(***************************************************************************)
EXTENDS Integers, Sequences, FiniteSetsExt

CONSTANTS
  Capacity,    \* the most points for which memory can be reserved
  OtherValues  \* bound: what may stand where the header has a colour and the records not

ASSUME CapacityAssumption == Capacity \in Nat
ASSUME ValuesAssumption == OtherValues \subseteq Int

NotFinite == -1

\* What the library makes of a record.
Record == [outcome : {"ok", "error", "panic"}, finite : BOOLEAN, value : Int]

Sources == <<"rgba", "rgb", "separate", "intensity", "height">>

Needs == [rgba |-> {"rgba"}, rgb |-> {"rgb"}, separate |-> {"r", "g", "b"},
          intensity |-> {"intensity"}, height |-> {}]

\* The first source for which all fields are there.
ColourSource(fields) ==
  Sources[Min({i \in DOMAIN Sources : Needs[Sources[i]] \subseteq DOMAIN fields})]

FieldsUsed(fields) ==
  {"x", "y", "z"} \cup Needs[ColourSource(fields)]
    \cup (IF ColourSource(fields) = "separate" THEN {"a"} \cap DOMAIN fields ELSE {})

Packed(fields) == ColourSource(fields) \in {"rgba", "rgb"}
KindOfPacked(fields) == fields[ColourSource(fields)].kind
FromRange(fields) == ColourSource(fields) \in {"intensity", "height"}

\* allocate_buffers: a declared size that is too large is an error, not an abort.
BuffersFit(file) == file.declared <= Capacity

\* Only the fields that are used have to be scalars.
Scalar(fields) == \A f \in FieldsUsed(fields) : fields[f].count = 1

\* Everything load_pcd refuses before it opens the records.
HeaderAccepted(file) ==
  /\ file.encoding \in {"ascii", "binary"}
  /\ {"x", "y", "z"} \subseteq DOMAIN file.fields
  /\ Scalar(file.fields)
  /\ ~(/\ file.encoding = "ascii"
       /\ Packed(file.fields)
       /\ KindOfPacked(file.fields) = "F32")
  /\ BuffersFit(file)

\* The fields of a header have the indices and kinds that the records have them at.
Agree(names, fields, found) ==
  \A f \in names : f \in DOMAIN found /\ found[f] = fields[f]

\* What the indices of a header make of a record of another layout: something else
\* stands there, which nothing notices.
Readings(record, fields, found) ==
  [outcome : {record.outcome},
   finite : IF Agree({"x", "y", "z"}, fields, found) THEN {record.finite} ELSE BOOLEAN,
   value : OtherValues]

\* The records of a file as the indices of a header read them.
ReadWith(fields, file) ==
  IF /\ FieldsUsed(file.fields) = FieldsUsed(fields)
     /\ Agree(FieldsUsed(fields), fields, file.fields)
  THEN {file.records}
  ELSE LET readings(i) == Readings(file.records[i], fields, file.fields)
       IN {s \in [DOMAIN file.records -> UNION {readings(i) : i \in DOMAIN file.records}] :
             \A i \in DOMAIN s : s[i] \in readings(i)}

\* What the records have where the header has field f.
FoundAt(f, fields, found) == {n \in DOMAIN found : found[n].index = fields[f].index}

\* An index beyond the record panics.  packed_color takes only three kinds; the
\* other sources convert any number.
PositionReadable(fields, found) == \A f \in {"x", "y", "z"} : FoundAt(f, fields, found) # {}

ColourReadable(fields, found) ==
  \A f \in FieldsUsed(fields) : \E n \in FoundAt(f, fields, found) :
    Packed(fields) /\ f = ColourSource(fields) => found[n].kind \in {"F32", "U32", "I32"}

\* What load_pcd has collected: the numbers of the records it kept, colours, values
\* to make colours of, and how many records it skipped and has read.
EmptyCloud == [positions |-> <<>>, colours |-> <<>>, fallback |-> <<>>, skipped |-> 0, read |-> 0]

\* Mutant: the value is kept before the coordinates are tested.
AddRecord_ValueFirst(cloud, record, fields) ==
  [cloud EXCEPT !.read = @ + 1,
                !.skipped = IF record.finite THEN @ ELSE @ + 1,
                !.positions = IF record.finite THEN Append(@, cloud.read + 1) ELSE @,
                !.colours = IF ~FromRange(fields) THEN Append(@, record.value) ELSE @,
                !.fallback = IF FromRange(fields) THEN Append(@, record.value) ELSE @]

AddRecord(cloud, record, fields) ==
  IF ~record.finite
  THEN [cloud EXCEPT !.read = @ + 1, !.skipped = @ + 1]
  ELSE LET kept == [cloud EXCEPT !.read = @ + 1, !.positions = Append(@, cloud.read + 1)]
       IN IF FromRange(fields) THEN [kept EXCEPT !.fallback = Append(@, record.value)]
                               ELSE [kept EXCEPT !.colours = Append(@, record.value)]

\* load_pcd goes on with the next record.
RecordUsable(record, fields, found) ==
  /\ record.outcome = "ok"
  /\ PositionReadable(fields, found)
  /\ record.finite => ColourReadable(fields, found)

\* A value in the range of the finite values, as a byte: half way when it is
\* not finite or there is no range; rounded half up.
Shade(v, values) ==
  LET finite == {values[i] : i \in DOMAIN values} \ {NotFinite}
      low == Min(finite)
      range == Max(finite) - low
  IN IF v = NotFinite \/ range = 0
     THEN 128
     ELSE (2 * 255 * (v - low) + range) \div (2 * range)

\* The end of load_pcd; of a height the shade is red and what is left of it blue.
Coloured(cloud, fields) ==
  IF FromRange(fields)
  THEN [cloud EXCEPT !.colours = [i \in DOMAIN cloud.fallback |-> Shade(cloud.fallback[i], cloud.fallback)]]
  ELSE cloud
=============================================================================
