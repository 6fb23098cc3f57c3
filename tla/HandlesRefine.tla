---------------------------- MODULE HandlesRefine ----------------------------
(***************************************************************************)
(* Handles implements HandleValues: sharing and copying on write cannot be *)
(* told from handles that have their settings to themselves.               *)
(***************************************************************************)
EXTENDS Handles

valueBar == [h \in Handle |-> IF at[h] = Dropped THEN Dropped ELSE Conf(h)]

PhaseAt(label) ==
  IF label \in {"wait", "connect"} THEN "asked"
  ELSE IF label = "ok" THEN "answered"
  ELSE IF label = "err" THEN "failed" ELSE "idle"

phaseBar == [c \in Call |-> PhaseAt(pc[c])]

Values == INSTANCE HandleValues WITH value <- valueBar, phase <- phaseBar

\* However handles are cloned, built and used for connections at the same time,
\* each behaves as if nothing were shared.
ImplementsValues == Values!Spec
=============================================================================
