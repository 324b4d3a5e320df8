------------------------------ MODULE TaskPayload ------------------------------
(***************************************************************************)
(* What a task says, in a request, in its row and in the events of the     *)
(* outbox, and the conversions between them.                               *)
(*                                                                         *)
(* Text stands for the columns that every conversion copies: title,        *)
(* description, priority, due_date and user_id.  Status and tag are apart: *)
(* conversions rewrite them.  The name of a tag is identified with the tag *)
(* that carries it, and None is the empty string, or NULL.                 *)
(***************************************************************************)
EXTENDS Naturals

CONSTANTS
  Text,        \* the columns that are always copied
  Due,         \* Due[x]: when the due_date of x passes
  Tag,         \* the ids a tag_id may hold; nothing requires that such a tag exists
  Nameless,    \* those that neither default_tag nor custom_tag has
  DefaultTag,  \* 'a1b2c3d4-...'
  None

ASSUME PayloadAssumption ==
  /\ Due \in [Text -> Nat]
  /\ DefaultTag \in Tag /\ Nameless \subseteq Tag /\ None \notin Tag

Status == {"not_completed", "in_progress", "completed"}

\* A row of tasks.
Row == [text : Text, status : Status, tag : Tag]

\* What dtoToEntity makes of a request for a new task, and a patch; the fields
\* that a patch leaves alone are None.  A patch names its tag, if any.
NewTask == [text : Text, status : Status, tag : Tag \cup {None},
            name : (Tag \ Nameless) \cup {None}]

PatchOfTask == [text : Text \cup {None}, status : Status \cup {None},
                name : (Tag \ Nameless) \cup {None}]

\* event_data; dated: created_at is that of the row, and not zero.
Payload == [text : Text, status : Status, tag : Tag \cup {None}, name : Tag \cup {None},
            dated : BOOLEAN]

-----------------------------------------------------------------------------
(* Conversions *)

\* A name is looked up, or becomes a new tag; only without one tag_id counts.
ResolvedTag(q) ==
  IF q.name # None THEN q.name ELSE IF q.tag # None THEN q.tag ELSE DefaultTag

\* INSERT INTO tasks
RowOf(q) == [text |-> q.text, status |-> q.status, tag |-> ResolvedTag(q)]

\* UPDATE tasks SET, for the fields that the patch has.
Patched(row, p) ==
  [text   |-> IF p.text = None THEN row.text ELSE p.text,
   status |-> IF p.status = None THEN row.status ELSE p.status,
   tag    |-> IF p.name = None THEN row.tag ELSE p.name]

ShownStatus_AnyStatus(row, now) ==
  IF Due[row.text] < now THEN "not_completed" ELSE row.status

\* The status modelToEntity computes: what is not completed in time never was.
ShownStatus(row, now) ==
  IF row.status # "completed" /\ Due[row.text] < now THEN "not_completed" ELSE row.status

\* toTaskPayload of a request: the tag is not resolved, created_at not known.
RequestPayload(q) ==
  [text |-> q.text, status |-> q.status, tag |-> q.tag, name |-> q.name, dated |-> FALSE]

\* toTaskPayload of modelToEntity of a row; the name comes from a LEFT JOIN.
RowPayload(row, now) ==
  [text |-> row.text, status |-> ShownStatus(row, now), tag |-> row.tag,
   name |-> IF row.tag \in Nameless THEN None ELSE row.tag, dated |-> TRUE]

DeletedPayload_Codes(row) ==
  [text |-> row.text, tag |-> row.tag, name |-> None, dated |-> TRUE,
   status |-> [not_completed |-> "1", in_progress |-> "2", completed |-> "3"][row.status]]

\* json_build_object in Delete: the stored status, and 'tags_name', ''.
DeletedPayload(row) ==
  [text |-> row.text, status |-> row.status, tag |-> row.tag, name |-> None, dated |-> TRUE]

-----------------------------------------------------------------------------

\* What may be said of a row, whoever says it: all of the text, a tag that
\* resolves to the row's, and its status, unless a task still in progress is
\* told as not completed.
Tells(p, row) ==
  /\ p.text = row.text
  /\ ResolvedTag(p) = row.tag
  /\ p.status = row.status \/ (p.status = "not_completed" /\ row.status = "in_progress")
=============================================================================
