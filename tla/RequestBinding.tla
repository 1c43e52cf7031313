--------------------------- MODULE RequestBinding ---------------------------
(***************************************************************************)
(* BindRequest (runtime/bind_handler.go, runtime/validate.go): the fields of *)
(* a request model are filled from the JSON body, then from the path, the     *)
(* query and the headers, and validated with what is known of their presence. *)
(*                                                                         *)
(* Embedded structs are part of their struct.  A value is one that its field *)
(* can be parsed from and its enum allows ("good"), its type's zero, null, or *)
(* one that cannot be parsed ("bad").                                       *)
(***************************************************************************)
EXTENDS SequencesExt

CONSTANTS Models,   \* sets of fields
          Configs,  \* of BindConfig
          Requests

VARIABLES model, config, request,
          answer   \* what BindRequest returns

vars == <<model, config, request, answer>>

Sources == <<"path", "query", "header">>

\* A field with the key it has in JSON, by its tag or by its name in Go, and the
\* sources that it has a tag of, always by the name "a".
Field == [key : {"a", "F"}, tagged : BOOLEAN, tags : SUBSET ToSet(Sources),
          pointer : BOOLEAN, rules : SUBSET {"required", "enum"}]
Value == [from : ToSet(Sources) \cup {"body", "none"}, is : {"zero", "good"}]
Unset == [from |-> "none", is |-> "zero"]
Answer(is, bound, errors) == [is |-> is, bound |-> bound, errors |-> errors]
Nothing == Answer("none", <<>>, {})

TypeOK ==
    /\ model \subseteq Field
    /\ config.body \in BOOLEAN /\ config.strict \in BOOLEAN
    /\ config.sources \subseteq ToSet(Sources)
    /\ answer.is \in {"none", "bad_request", "validation_failed", "panic", "bound"}
    /\ answer.is = "bound" => answer.bound \in [model -> Value]
    /\ answer.errors \subseteq model \X {"required", "enum"}

Init == model \in Models /\ config \in Configs /\ request \in Requests /\ answer = Nothing

-----------------------------------------------------------------------------
(* The body                                                                 *)

Fold(key) == IF key = "A" THEN "a" ELSE key
Members == IF config.body THEN request.body ELSE <<>>

\* encoding/json sets a field whatever other tags it has, and whatever the case
\* of the key.
Takes(f, key) ==
    IF config.strict THEN key = f.key /\ f.tags = {} ELSE Fold(key) = Fold(f.key)

BodyRefused ==
    /\ config.body
    /\ \/ request.sent # "object"
       \/ \E m \in ToSet(Members) :
             \/ config.strict /\ \A f \in model : ~Takes(f, m.key)
             \/ m.value = "bad" /\ \E f \in model : Takes(f, m.key)

\* Of the members that set it, one after the other, the last one counts; null leaves
\* what is not a pointer as it is.
BodyBound(f) ==
    LET n == SelectLastInSeq(Members, LAMBDA m : /\ Takes(f, m.key)
                                                 /\ m.value = "null" => f.pointer)
    IN  IF n = 0 \/ Members[n].value = "null" THEN Unset
        ELSE [from |-> "body", is |-> Members[n].value]

-----------------------------------------------------------------------------
(* The other sources                                                        *)

Sent(f, s) == s \in config.sources \cap f.tags /\ request[s] # "absent"
FirstSent(f) == SelectInSeq(Sources, LAMBDA s : Sent(f, s))

\* Mutant: a later source overrides.
BoundByLast(f) ==
    LET n == SelectLastInSeq(Sources, LAMBDA s : Sent(f, s))
    IN  IF n = 0 THEN BodyBound(f) ELSE [from |-> Sources[n], is |-> request[Sources[n]]]

Bound(f) ==
    LET n == FirstSent(f)
    IN  IF n = 0 THEN BodyBound(f) ELSE [from |-> Sources[n], is |-> request[Sources[n]]]

SourcesRefused == \E f \in model : Bound(f).is = "bad"

-----------------------------------------------------------------------------
(* Validation                                                               *)

\* The name under which a field's presence is kept, and errors are reported.
Name(f) == IF f.tagged \/ f.tags = {} THEN f.key ELSE "a"

Tracked(name) ==
    \E f \in model : /\ Name(f) = name
                     /\ f.tags \cap config.sources # {} \/ (f.tags = {} /\ config.body)

\* The presence of a member of the body goes by its exact key.
Present(name) ==
    \E f \in model :
       /\ Name(f) = name
       /\ \/ FirstSent(f) # 0
          \/ f.tags = {} /\ \E m \in ToSet(Members) : m.key = f.key /\ m.value # "null"

\* Mutant: by the value alone.
RequiredByValue(f) == "required" \in f.rules /\ Bound(f).is = "zero"

RequiredFails(f) ==
    /\ "required" \in f.rules
    /\ IF Tracked(Name(f)) THEN ~Present(Name(f)) ELSE Bound(f).is = "zero"

\* A rule that failed because the field is required ends the field's rules.
EnumChecked(f) == "enum" \in f.rules /\ ~RequiredFails(f)
EnumFails(f) == EnumChecked(f) /\ Bound(f).is = "zero"

\* reflect.Value.Interface of a pointer that is nil.
EnumPanics(f) == EnumChecked(f) /\ f.pointer /\ Bound(f) = Unset

Errors ==
    {<<f, "required">> : f \in {g \in model : RequiredFails(g)}}
        \cup {<<f, "enum">> : f \in {g \in model : EnumFails(g)}}

BindRequest ==
    IF BodyRefused \/ SourcesRefused THEN Answer("bad_request", <<>>, {})
    ELSE IF \E f \in model : EnumPanics(f) THEN Answer("panic", <<>>, {})
    ELSE IF Errors # {} THEN Answer("validation_failed", <<>>, Errors)
    ELSE Answer("bound", [f \in model |-> Bound(f)], {})

Next == answer = Nothing /\ answer' = BindRequest /\ UNCHANGED <<model, config, request>>

Spec == Init /\ [][Next]_vars

-----------------------------------------------------------------------------
\* Who is handed a request finds in each field the first of its sources that was
\* sent, and what the body says only if none was; in strict mode no field of
\* another source can be set by the body.  A required field was sent, unless
\* another field of its name was, or a null in another spelling has undone it;
\* and nobody is told that a field is missing that he sent under its name, be it
\* zero.  Only an enum of a pointer fails in another way.
SpelledNull == \E m \in ToSet(Members) : m.value = "null" /\ m.key = "A"
FieldRight(f, v) ==
    /\ v.from \in ToSet(Sources) =>
         /\ Sent(f, v.from) /\ v.is = request[v.from]
         /\ \A s \in ToSet(Sources) :
               Sent(f, s) => s = v.from \/ v.from = "path" \/ s = "header"
    /\ v.from \in {"body", "none"} => \A s \in ToSet(Sources) : ~Sent(f, s)
    /\ v.from = "body" =>
         \E m \in ToSet(Members) : m.value = v.is /\ (config.strict => m.key = f.key /\ f.tags = {})
    /\ v.from = "none" /\ "required" \in f.rules =>
         SpelledNull \/ \E g \in model \ {f} : Name(g) = Name(f) /\ answer.bound[g].from # "none"
RequestBound ==
    /\ answer.is = "bound" => \A f \in model : FieldRight(f, answer.bound[f])
    /\ \A f \in model : <<f, "required">> \in answer.errors =>
          /\ \A s \in ToSet(Sources) : ~Sent(f, s)
          /\ f.tags = {} => \A m \in ToSet(Members) : m.key = f.key => m.value = "null"
    /\ answer.is = "panic" =>
          \E f \in model : f.pointer /\ "enum" \in f.rules /\ \A s \in ToSet(Sources) : ~Sent(f, s)
=============================================================================
