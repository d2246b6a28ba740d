------------------------------- MODULE Presets -------------------------------
(***************************************************************************)
(* The shelf of named presets, crates/runtime/src/sqlite_presets.rs.  Each *)
(* operation is one statement of the database, except that a replacement   *)
(* is an update and then a read of what it left; several clients, of the   *)
(* API and of the command line, share the database.  Descriptions and      *)
(* timestamps are left out, and so are the operations that only read.      *)
(***************************************************************************)
EXTENDS Front

CONSTANTS PresetNames, PresetClients

VARIABLES shelf,    \* the template of each name, None for a name not taken
          writer    \* what a client's replacement wrote, and then read

presetVars == <<shelf, writer>>

Unoccupied == [name |-> None, wrote |-> None, read |-> None, answered |-> FALSE, overtaken |-> FALSE]

PresetsInit ==
  /\ shelf = [name \in PresetNames |-> None]
  /\ writer = [c \in PresetClients |-> Unoccupied]

(* History: a change of a row overtakes the replacements that have still to  *)
(* read it.                                                                  *)
Overtake(changed) ==
  [c \in PresetClients |->
     IF writer[c].name = changed /\ ~writer[c].answered
     THEN [writer[c] EXCEPT !.overtaken = TRUE] ELSE writer[c]]

(* create(): INSERT OR IGNORE, a conflict for a name that is taken.          *)
CreatePreset(name, template) ==
  /\ PresetValid(template) /\ shelf[name] = None
  /\ shelf' = [shelf EXCEPT ![name] = template]
  /\ writer' = Overtake(name)

(* replace() up to its UPDATE; a name that is not taken is not found.        *)
ReplacePreset(c, name, template) ==
  /\ PresetValid(template) /\ shelf[name] # None
  /\ writer[c] = Unoccupied
  /\ shelf' = [shelf EXCEPT ![name] = template]
  /\ writer' = [Overtake(name) EXCEPT ![c] = [Unoccupied EXCEPT !.name = name, !.wrote = template]]

(* replace(): get() of the row, which is the answer.                         *)
ReadBack(c) ==
  /\ writer[c].name # None /\ ~writer[c].answered
  /\ writer' = [writer EXCEPT ![c].read = shelf[writer[c].name], ![c].answered = TRUE]
  /\ UNCHANGED shelf

(* delete()                                                                  *)
DeletePreset(name) ==
  /\ shelf[name] # None
  /\ shelf' = [shelf EXCEPT ![name] = None]
  /\ writer' = Overtake(name)

(* The client has its answer.                                                *)
Told(c) ==
  /\ writer[c].answered
  /\ writer' = [writer EXCEPT ![c] = Unoccupied]
  /\ UNCHANGED shelf

PresetsNext(templates, revisions) ==
  \/ \E name \in PresetNames, template \in templates : CreatePreset(name, template)
  \/ \E name \in PresetNames, c \in PresetClients, template \in revisions :
       ReplacePreset(c, name, template)
  \/ \E name \in PresetNames : DeletePreset(name)
  \/ \E c \in PresetClients : ReadBack(c) \/ Told(c)

(* docs/api.md:137: `replace` answers 404 for a missing preset.  The answer  *)
(* is the template that was written, unless another change of the same       *)
(* preset came between the two statements.                                   *)
ReplacementsAnswer ==
  \A c \in PresetClients :
    writer[c].answered /\ ~writer[c].overtaken => writer[c].read = writer[c].wrote

(* What is on the shelf can be used: with a prompt and the inputs that its   *)
(* operation needs it is a valid request, except that nobody has measured    *)
(* the prompt (preset.rs:214) nor what metadata would embed of it.           *)
ShelfIsUsable ==
  \A name \in PresetNames :
    shelf[name] # None =>
      LET template == shelf[name]
          request == Applied(template, None)
      IN template.prompt # None =>
           Issues([request EXCEPT !.images = IF template.kind = "edit" THEN 1 ELSE 0,
                                  !.references = IF template.kind = "generate" THEN 1 ELSE 0],
                  DefaultLimits) \subseteq {"prompt", "output.metadata"}
=============================================================================
