---------------------------- MODULE SingleWriter ----------------------------
(***************************************************************************)
(* What room ownership promises of the stored document.  It has writers in *)
(* numbered terms, one at a time: the writer of a term is replaced only by *)
(* the writer of the next one, and a term whose writer has resigned is     *)
(* over.  A writer adds to the content and does nothing else.  Only while  *)
(* there is no writer the document may be changed from outside: given      *)
(* another scope (path, representation, lifecycle generation), further     *)
(* content, or a new beginning with all of its content.                    *)
(*                                                                         *)
(* RoomOwnership, with its sessions, guards, drains and receipts, is       *)
(* checked and proved to implement this module.                            *)
(***************************************************************************)
EXTENDS Naturals

CONSTANTS Writer, Edit,
          None      \* no writer

VARIABLES term, writer,
          base,     \* content the document was last begun with
          content,  \* what was added since
          scope

writerVars == <<term, writer, base, content, scope>>

WriterInit ==
  /\ term = 0
  /\ writer = None
  /\ base = {}
  /\ content = {}
  /\ scope = 1

TakeOver(w) ==
  /\ term' = term + 1
  /\ writer' = w
  /\ UNCHANGED <<base, content, scope>>

Write ==
  /\ writer # None
  /\ content' \in SUBSET Edit
  /\ content \subseteq content'
  /\ UNCHANGED <<term, writer, base, scope>>

Resign ==
  /\ writer # None
  /\ writer' = None
  /\ UNCHANGED <<term, base, content, scope>>

Change ==
  /\ writer = None
  /\ scope' \in {scope, scope + 1}
  /\ content' \in SUBSET Edit
  /\ content \subseteq content'
  /\ UNCHANGED <<term, writer, base>>

BeginAnew ==
  /\ writer = None
  /\ scope' = scope + 1
  /\ base' = base \union content
  /\ content' = {}
  /\ UNCHANGED <<term, writer>>

WriterNext ==
  \/ \E w \in Writer : TakeOver(w)
  \/ Write
  \/ Resign
  \/ Change
  \/ BeginAnew

WriterSpec == WriterInit /\ [][WriterNext]_writerVars
=============================================================================
