----------------------------- MODULE Attributes -----------------------------
(* policies/attributes.js: a listing's attributes are validated against the  *)
(* schema in its vertical's config, one definition after another and then    *)
(* what no definition names, and come out normalised, to be stored.  What    *)
(* came out is validated once more, as when the listing is saved again.      *)
(*                                                                           *)
(* A value is a record: its type t; the characters s of String(value), which *)
(* for a list of one element are that element's and for an empty one none;   *)
(* and what they read as, r: nothing more ("plain"), an integer, half of an  *)
(* odd number, between n and n + 1, or true and false, 1 and 0.  A number or *)
(* a boolean that was coerced is never asked for its text, which is left out.*)
(* A definition's bounds are sets: range for numbers, lengths for strings.   *)
EXTENDS Integers, Sequences, FiniteSets, FiniteSetsExt

CONSTANTS WellFormedKeys,  \* keys of the form [a-z][a-z0-9_]*
          Verticals,       \* their slug and config
          Payloads,        \* attributes as sent
          MaxLength,       \* DEFAULT_MAX_LENGTH, 2000
          MaxAttributes    \* MAX_ATTRIBUTES, 100

VARIABLES vertical, payload, pos, out, verdict, first
vars == <<vertical, payload, pos, out, verdict, first>>

Types == {"string", "int", "number", "bool", "enum"}
Blank == " "
Val(t, r, n, s) == [t |-> t, r |-> r, n |-> n, s |-> s]
Absent == Val("none", "plain", 0, <<>>)
Empty == [k \in {} |-> Absent]
Values == [t : {"none", "string", "number", "bool", "list", "object"},
           r : {"plain", "int", "half", "truth"}, n : Int, s : Seq(STRING)]

AttributesAssumption ==
  /\ MaxLength \in Nat \ {0} /\ MaxAttributes \in Nat
  /\ \A v \in Verticals : LET defs == v.config.defs IN Len(defs) \in Nat /\ DOMAIN defs = 1..Len(defs)
  /\ \A p \in Payloads : \A k \in DOMAIN p : p[k] \in Values /\ (p[k].t = "none" => p[k] = Absent)
(* The operators that differ from the code on purpose, each the slip that a  *)
(* property is to catch: TrimOneEnd, AnyRange, NoSlugOnly, AnyValue.         *)
TrimOneEnd(s) == IF s # <<>> /\ s[1] = Blank THEN Tail(s)
                 ELSE IF s # <<>> /\ s[Len(s)] = Blank THEN SubSeq(s, 1, Len(s) - 1) ELSE s
Trim(s) == LET ink == {i \in DOMAIN s : s[i] # Blank}
           IN IF ink = {} THEN <<>> ELSE SubSeq(s, Min(ink), Max(ink))
Cut(s) == SubSeq(s, 1, IF Len(s) < MaxLength THEN Len(s) ELSE MaxLength)

-----------------------------------------------------------------------------
(* attributeSchemaFromConfig *)
Definitions(config) == IF config.attributes = "missing" THEN <<>> ELSE config.defs
BadDefinition(defs, i) == \/ defs[i].key \notin WellFormedKeys
                          \/ \E k \in 1..(i - 1) : defs[k].key = defs[i].key
                          \/ defs[i].type \notin Types
                          \/ defs[i].type = "enum" /\ defs[i].options = {}
BadConfig(config) == \/ config.attributes = "object"
                     \/ Len(Definitions(config)) > MaxAttributes
                     \/ \E i \in DOMAIN Definitions(config) : BadDefinition(Definitions(config), i)
Defs == Definitions(vertical.config)
Known == {Defs[i].key : i \in DOMAIN Defs}

(* coerceValue: the value that is stored, or Absent when it fails.  All but   *)
(* strings are first read as String(value): a list may pass for a number, a  *)
(* boolean or an option, and a number for an option.                         *)
AnyRange(def, v) == TRUE
InRange(def, v) == v.n \in def.range /\ (v.r = "half" => v.n + 1 \in def.range)
Numbers(def) == IF def.type = "int" THEN {"int"} ELSE {"int", "half"}
Coerced(def, v) ==
  CASE def.type = "string" /\ v.t = "string" /\ Len(Trim(v.s)) \in def.lengths -> [v EXCEPT !.s = Trim(@)]
    [] def.type \in {"int", "number"} /\ v.t # "bool" /\ v.r \in Numbers(def) /\ InRange(def, v) -> Val("number", v.r, v.n, <<>>)
    [] def.type = "bool" /\ v.t = "bool" -> v
    [] def.type = "bool" /\ v.t # "bool" /\ v.r = "truth" -> Val("bool", "truth", v.n, <<>>)
    [] def.type = "enum" /\ Trim(v.s) \in def.options -> Val("string", v.r, v.n, Trim(v.s))
    [] OTHER -> Absent
Of(p, k) == IF k \in DOMAIN p THEN p[k] ELSE Absent
Missing(v) == v = Absent \/ (v.t = "string" /\ Trim(v.s) = <<>>)
With(f, k, v) == [x \in DOMAIN f \union {k} |-> IF x = k THEN v ELSE f[x]]

-----------------------------------------------------------------------------
Init == /\ vertical \in Verticals /\ payload \in Payloads
        /\ pos = 0 /\ out = Empty /\ verdict = "running" /\ first = <<>>

End(v) == verdict' = v /\ UNCHANGED <<vertical, payload, pos, out, first>>
Running == verdict = "running"

(* The jobs vertical, and one without a slug, keep {}. *)
NoSlugOnly(v) == v.slug = ""
ExemptSlug(v) == v.slug \in {"jobs", ""}
Exempt == Running /\ pos = 0 /\ ExemptSlug(vertical) /\ End("done")
RefuseConfig == Running /\ pos = 0 /\ ~ExemptSlug(vertical) /\ BadConfig(vertical.config) /\ End("INVALID_VERTICAL_CONFIG")
RefuseUnknown == /\ Running /\ pos = 0 /\ ~ExemptSlug(vertical) /\ ~BadConfig(vertical.config)
                 /\ ~vertical.config.allowUnknown /\ DOMAIN payload \ Known # {}
                 /\ End("UNKNOWN_ATTRIBUTE")
Begin == /\ Running /\ pos = 0 /\ ~ExemptSlug(vertical) /\ ~BadConfig(vertical.config)
         /\ vertical.config.allowUnknown \/ DOMAIN payload \subseteq Known
         /\ pos' = 1 /\ UNCHANGED <<vertical, payload, out, verdict, first>>

(* One definition. *)
AtDefinition == Running /\ pos \in DOMAIN Defs
Here == Of(payload, Defs[pos].key)
Skip == /\ AtDefinition /\ Missing(Here) /\ ~Defs[pos].required
        /\ pos' = pos + 1 /\ UNCHANGED <<vertical, payload, out, verdict, first>>
RefuseMissing == AtDefinition /\ Missing(Here) /\ Defs[pos].required /\ End("MISSING_ATTRIBUTE")
RefuseValue == AtDefinition /\ ~Missing(Here) /\ Coerced(Defs[pos], Here) = Absent /\ End("INVALID_ATTRIBUTES")
Take == /\ AtDefinition /\ ~Missing(Here) /\ Coerced(Defs[pos], Here) # Absent
        /\ out' = With(out, Defs[pos].key, Coerced(Defs[pos], Here))
        /\ pos' = pos + 1 /\ UNCHANGED <<vertical, payload, verdict, first>>

(* What no definition names: scalars under well-formed keys pass, trimmed    *)
(* and then cut.                                                             *)
Unnamed == {k \in DOMAIN payload \ Known : payload[k] # Absent}
Plain(v) == IF v.t = "string" THEN [v EXCEPT !.s = Cut(Trim(@))] ELSE v
AnyValue(v) == TRUE
Scalar(v) == v.t \notin {"list", "object"}
PassRest == /\ Running /\ pos = Len(Defs) + 1
            /\ IF \A k \in Unnamed : k \in WellFormedKeys /\ Scalar(payload[k])
               THEN /\ out' = [k \in DOMAIN out \union Unnamed |-> IF k \in Unnamed THEN Plain(payload[k]) ELSE out[k]]
                    /\ verdict' = "done"
               ELSE verdict' = "INVALID_ATTRIBUTES" /\ UNCHANGED out
            /\ UNCHANGED <<vertical, payload, pos, first>>

(* What was stored is sent again. *)
Again == /\ verdict = "done" /\ first = <<>>
         /\ first' = <<out>> /\ payload' = out /\ out' = Empty /\ pos' = 0 /\ verdict' = "running"
         /\ UNCHANGED vertical

Next == \/ Exempt \/ RefuseConfig \/ RefuseUnknown \/ Begin \/ Skip \/ RefuseMissing \/ RefuseValue \/ Take
        \/ PassRest \/ Again
Spec == Init /\ [][Next]_vars /\ WF_vars(Next)

-----------------------------------------------------------------------------
TypeOK == /\ pos \in 0..(Len(Defs) + 1) /\ Len(first) \in 0..1
          /\ \A k \in DOMAIN out : out[k].t \in {"string", "number", "bool"}

(* What is stored conforms to the schema: every definition's value has its   *)
(* type and is within its bounds, what is required is there, and nothing     *)
(* else is unless the config allows it ("normalised attributes safe to       *)
(* persist into jobs.attributes", attributes.js:134).  Strings, lists and    *)
(* blanks that only read as something are among the inputs.                  *)
Fits(def, v) == CASE def.type = "string" -> v.t = "string" /\ Len(v.s) \in def.lengths
                  [] def.type \in {"int", "number"} ->
                       /\ v.t = "number" /\ v.r \in Numbers(def)
                       /\ {v.n, v.n + (IF v.r = "half" THEN 1 ELSE 0)} \subseteq def.range
                  [] def.type = "bool" -> v.t = "bool"
                  [] OTHER -> v.t = "string" /\ v.s \in def.options
Conforms == (verdict = "done" /\ ~ExemptSlug(vertical)) =>
  /\ \A i \in DOMAIN Defs : IF Defs[i].key \in DOMAIN out THEN Fits(Defs[i], out[Defs[i].key]) ELSE ~Defs[i].required
  /\ vertical.config.allowUnknown \/ DOMAIN out \subseteq Known

(* The jobs vertical cannot regress (attributes.js:21): whatever is sent and *)
(* whatever its config holds, even one that is malformed, the outcome is {}. *)
JobsExempt == vertical.slug \in {"jobs", ""} => verdict \in {"running", "done"} /\ out = Empty

(* What is stored is normalised: validated once more, as when the listing is *)
(* saved again, it is accepted and comes out the same - but for a text that  *)
(* no definition names and that was cut at a blank, which loses the blank    *)
(* (attributes.js:176 trims first and cuts then).  A schema with an empty    *)
(* option is left out: an empty list passes for it, and the empty text that  *)
(* is stored is missing the second time (attributes.js:118, 160).            *)
EmptyOption == \E i \in DOMAIN Defs : Defs[i].type = "enum" /\ <<>> \in Defs[i].options
CutAtBlank(v, again) == /\ v.t = "string" /\ Len(v.s) = MaxLength /\ v.s[MaxLength] = Blank
                        /\ again = [v EXCEPT !.s = Trim(@)]
Normalised == (first # <<>> /\ ~EmptyOption) =>
  /\ verdict \in {"running", "done"}
  /\ verdict = "done" => /\ DOMAIN out = DOMAIN first[1]
                         /\ \A k \in DOMAIN out : \/ out[k] = first[1][k]
                                                  \/ k \notin Known /\ CutAtBlank(first[1][k], out[k])
=============================================================================
