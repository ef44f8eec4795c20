---------------------------- MODULE CappedOutput ----------------------------
(***************************************************************************)
(* What a sandboxed run keeps of the text it prints (CappedOutput of       *)
(* crates/marrow-lsp-core/src/mcp.rs).  A text is the sequence of the      *)
(* widths of its characters in UTF-8.                                      *)
(***************************************************************************)
EXTENDS Integers, Sequences, FiniteSetsExt, SequencesExt

CONSTANT Cap  \* OUTPUT_CAP, in bytes

ASSUME CapAssumption == Cap \in Nat

Text == Seq(1..4)

(* The bytes of the first characters of a text: its character boundaries. *)
Ends(text) ==
  LET end[n \in 0..Len(text)] == IF n = 0 THEN 0 ELSE end[n - 1] + text[n] IN end

Bytes(text) == Ends(text)[Len(text)]

(* The longest prefix of whole characters of at most `room` bytes. *)
Fitting(text, room) == SubSeq(text, 1, Max({n \in 0..Len(text) : Ends(text)[n] <= room}))

Fresh == [text |-> <<>>, truncated |-> FALSE]

(* A plausible bug: a full sink goes on taking what still fits. *)
Mut_write(output, text) ==
  LET room == Cap - Bytes(output.text)
  IN [text |-> output.text \o Fitting(text, room),
      truncated |-> output.truncated \/ Bytes(text) > room]

write(output, text) ==
  IF output.truncated THEN output
  ELSE LET room == Cap - Bytes(output.text)
       IN [text |-> output.text \o Fitting(text, room), truncated |-> Bytes(text) > room]

(* What is kept of a sequence of prints, and what it would be without a cap. *)
Captured(prints) == FoldLeft(write, Fresh, prints)
Everything(prints) == FlattenSeq(prints)
=============================================================================
