------------------------------ MODULE Projections ------------------------------
(***************************************************************************)
(* Data that is derived or written down and read back: RunSummaryProjector *)
(* (operations/projections.py), a fold over the events of a run, and the   *)
(* codec of stored payloads (infrastructure/db/serialization.py).          *)
(***************************************************************************)
EXTENDS Naturals, Sequences, SequencesExt

-----------------------------------------------------------------------------
(* An event has a name, the value its payload holds for that name, or none,*)
(* the version of its aggregate and the moment it occurred.                *)
Untold == "unknown"

NoSummary ==
  [phase |-> Untold, disposition |-> Untold, wait_reason |-> Untold,
   attempt |-> Untold, revision |-> 0, event_count |-> 0, first |-> {}, last |-> {}]

Told(event, name, old) ==
  IF event.name = name /\ event.value # Untold THEN event.value ELSE old

Apply(summary, event) ==
  [phase       |-> Told(event, "phase_changed", summary.phase),
   disposition |-> Told(event, "terminal_committed", summary.disposition),
   wait_reason |-> Told(event, "wait_registered", summary.wait_reason),
   attempt     |-> Told(event, "retry_scheduled", summary.attempt),
   revision    |-> event.version,
   event_count |-> summary.event_count + 1,
   first       |-> IF summary.first = {} THEN {event.at} ELSE summary.first,
   last        |-> {event.at}]

Summary(events) == FoldLeft(Apply, NoSummary, events)

(* What the stream delivers again from some event on changes the summary   *)
(* of a run in nothing but the number of events it counted.                *)
ReplayChangesNothing(events, from) ==
  LET again == events \o SubSeq(events, from, Len(events)) IN
  Summary(again) = [Summary(events) EXCEPT !.event_count = Len(again)]

-----------------------------------------------------------------------------
(* A value is the way from the whole down to one of the atoms and moments  *)
(* in it: the tuples, lists, dicts and objects it leads through, outermost *)
(* first.  A dict is told by the key the way goes on from, which is enough *)
(* for the codec to mistake it for something else; "keyed" is a dict whose *)
(* key is no text, told by the text of it, and "foreign" an object of a    *)
(* class that is not in _CLASS_REGISTRY.                                   *)
Tagged(key) == [is |-> "dict", key |-> key]

Foreign == [is |-> "foreign"]

(* What is raised for the whole value.                                     *)
Raised == <<[is |-> "raised"]>>

(* A moment without a zone is read as UTC.                                 *)
Zoned(part) == [part EXCEPT !.zone = IF @ = "none" THEN "utc" ELSE @]

(* encode_value: everything but atoms, lists and dicts becomes a tagged    *)
(* dict, that of a tuple with a list in it.  Foreign stands for the tagged *)
(* dict of an object whose class the decoder does not know.                *)
Encode(value) ==
  FlattenSeq([i \in DOMAIN value |->
    CASE value[i].is \in {"atom", "list", "dict", "foreign"} -> <<value[i]>>
      [] value[i].is = "keyed"  -> <<Tagged(value[i].key)>>
      [] value[i].is = "moment" -> <<Tagged("$dt"), value[i]>>
      [] value[i].is = "tuple"  -> <<Tagged("$tuple"), [is |-> "list"]>>
      [] value[i].is = "object" -> <<Tagged("$class")>>])

(* Mutant: tags are not looked for.                                        *)
DecodeUntagged(value) == value

(* decode_value: what is in a tagged dict is what its tag says, unless its *)
(* class is unknown.                                                       *)
Decode(value) ==
  LET In(key, i) == i > 1 /\ value[i - 1] = Tagged(key) IN
  IF Foreign \in ToSet(value) THEN Raised ELSE
  FlattenSeq([i \in DOMAIN value |->
    CASE value[i] \in {Tagged("$dt"), Tagged("$tuple")} -> <<>>
      [] value[i] = Tagged("$class") -> <<[is |-> "object"]>>
      [] In("$dt", i)    -> <<Zoned(value[i])>>
      [] In("$tuple", i) -> <<[is |-> "tuple"]>>
      [] OTHER -> <<value[i]>>])

(* A value as it comes back.                                               *)
Read(value) ==
  [i \in DOMAIN value |->
     CASE value[i].is = "moment" -> Zoned(value[i])
       [] value[i].is = "keyed"  -> Tagged(value[i].key)
       [] OTHER -> value[i]]

(* As long as no dict has a reserved key, no container is taken for another*)
(* one: what is stored is what is read back, save that a moment without a  *)
(* zone is UTC by then and a key that was no text is one, and a payload    *)
(* with an object of an unknown class is not read back at all.             *)
ReadsBack(value) ==
  Decode(Encode(value)) = IF Foreign \in ToSet(value) THEN Raised ELSE Read(value)
=============================================================================
