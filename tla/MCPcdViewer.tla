---------------------------- MODULE MCPcdViewer ----------------------------
(* Files for TLC: every way in which load_pcd refuses a header, every      *)
(* source of colours, fields in another order, and records that are        *)
(* skipped, fail or panic.                                                 *)
EXTENDS PcdViewer

CONSTANTS p1, p2

Field(index, kind) == [index |-> index, count |-> 1, kind |-> kind]
XYZ == [x |-> Field(0, "F32"), y |-> Field(1, "F32"), z |-> Field(2, "F32")]
With(name, field) == [n \in DOMAIN XYZ \cup {name} |-> IF n = name THEN field ELSE XYZ[n]]
Separate ==
  [x |-> XYZ.x, y |-> XYZ.y, z |-> XYZ.z, r |-> Field(3, "F32"), g |-> Field(4, "F32"),
   b |-> Field(5, "F32"), a |-> Field(6, "F32"), intensity |-> Field(7, "F32")]
IntensityFirst ==
  [intensity |-> Field(0, "F32"), x |-> Field(1, "F32"), y |-> Field(2, "F32"), z |-> Field(3, "F32")]
RgbAndRgba ==
  [x |-> XYZ.x, y |-> XYZ.y, z |-> XYZ.z, rgb |-> Field(3, "F32"), rgba |-> Field(4, "U32")]

Good(value) == [outcome |-> "ok", finite |-> TRUE, value |-> value]
Skipped(value) == [outcome |-> "ok", finite |-> FALSE, value |-> value]
Bad(outcome) == [outcome |-> outcome, finite |-> TRUE, value |-> 0]

File(encoding, fields, records) ==
  [encoding |-> encoding, declared |-> Len(records), fields |-> fields, records |-> records]

Two == <<Good(3), Good(7)>>

AllFiles == {
  File("unreadable", XYZ, <<>>),
  File("binary_compressed", XYZ, Two),
  File("ascii", [x |-> XYZ.x, y |-> XYZ.y], Two),
  File("ascii", With("rgba", Field(3, "F32")), Two),
  File("binary", With("rgba", Field(3, "F32")), <<Skipped(9), Good(3)>>),
  File("binary", With("rgba", [index |-> 3, count |-> 2, kind |-> "U8"]), Two),
  File("binary", With("rgb", Field(3, "U8")), <<Skipped(9), Good(3)>>),
  File("ascii", RgbAndRgba, Two),
  File("ascii", Separate, <<Skipped(9), Good(NotFinite)>>),
  File("ascii", With("intensity", Field(3, "F32")), <<Good(9), Good(NotFinite), Good(3)>>),
  File("ascii", IntensityFirst, <<Good(9), Good(3)>>),
  File("ascii", XYZ, <<Skipped(9), Good(3), Good(7)>>),
  File("ascii", XYZ, <<Good(5), Bad("panic")>>),
  [File("ascii", XYZ, <<>>) EXCEPT !.declared = Capacity + 1]}

\* The second file is there to be mistaken for the first.
OneFile == {File("ascii", XYZ, <<Good(5)>>)}

MCOtherValues == {4}

MCFiles(path) == IF path = p1 THEN AllFiles ELSE OneFile
=============================================================================
