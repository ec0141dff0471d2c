--------------------------- MODULE FormValidation ---------------------------
(* Client-side validation of the forms that record customers, invoices,    *)
(* payments and plans (jquery.validate.unobtrusive.js, included by          *)
(* _ValidationScriptsPartial). The data-val-* attributes of the fields      *)
(* become rules of the jQuery Validation plugin, which adds the rules of    *)
(* classes, HTML attributes and types; it checks fields while they are      *)
(* edited and the whole form when it is submitted, and this script shows    *)
(* the outcome next to the fields and in the summary.                       *)
(* A value is what is wrong with it ("fine" if nothing; "different" if it   *)
(* is only not the text "fine" stands for). Field names are unique in a     *)
(* form, as in every view. No view uses [Remote], [Compare] or data-rule-*: *)
(* the first and the last are left out, of the second the check again when  *)
(* the other field is left.                                                 *)
EXTENDS Naturals, FiniteSets

CONSTANTS
    Forms, Fields, FormOf,  \* forms; their input elements; the form of each
    DataVal,      \* elements with data-val=true
    Attributes,   \* [Fields -> functions from adapters to the parameters given]
    Markup,       \* [Fields -> classes, HTML attributes and type of the element]
    Checkboxes,   \* fields that are checkboxes
    Ignored,      \* hidden and disabled fields
    WithSpan,     \* fields with an element data-valmsg-for
    WithSummary,  \* forms with a list in data-valmsg-summary=true
    Entries,      \* [Fields -> what a user can enter]
    Prefilled,    \* what the fields of a fresh page contain
    Resettable    \* forms that can be reset

Flaws == {"absent", "short", "long", "low", "high", "uneven", "malformed", "different"}
Values == Flaws \cup {"fine"}

ASSUME FormsAssumption ==
    /\ FormOf \in [Fields -> Forms]
    /\ Entries \in [Fields -> SUBSET Values]
    /\ Prefilled \in [Fields -> Values]
    /\ WithSpan \subseteq Fields
    /\ \A f \in Fields : "equalto" \in DOMAIN Attributes[f] =>
          \E g \in Fields : FormOf[g] = FormOf[f] /\ Attributes[f]["equalto"] = {g}
\* As ASP.NET renders them: data-val-* only with data-val=true; [MinLength] has a
\* minimum, [MaxLength] a maximum, [Range] both. No field asks for a rule whose
\* method is in additional-methods.js, which no page loads: its check would throw
\* out of the submit handler, and the form would be sent. For the same reason a
\* step only goes with the types the plugin's method accepts.
ASSUME AttributesAssumption ==
    \A f \in Fields :
       /\ f \notin DataVal => DOMAIN Attributes[f] = {}
       /\ "minlength" \in DOMAIN Attributes[f] => Attributes[f]["minlength"] \subseteq {"min"}
       /\ "maxlength" \in DOMAIN Attributes[f] => Attributes[f]["maxlength"] \subseteq {"max"}
       /\ "range" \in DOMAIN Attributes[f] => Attributes[f]["range"] = {"min", "max"}
       /\ DOMAIN Attributes[f] \cap {"extension", "fileextensions", "creditcard"} = {}
       /\ "creditcard" \notin Markup[f].classes
       /\ "step" \in Markup[f].attributes => Markup[f].type \in {"none", "text", "number", "range"}

VARIABLES
    validator,  \* [Forms -> rules of each field, once a validator is attached]
    value, rendered,    \* what the fields contain; what the server put there
    submitted, invalid, \* names the validator remembers (validator.submitted, .invalid)
    span,       \* class and text of the message element of each field
    summary,    \* class and items of the summary of each form
    checked,    \* history: what the last check of a field with a message element found
    posted      \* [Forms -> "checked" or "unchecked" once sent and not yet answered]

formVars == <<validator, value, rendered, submitted, invalid, span, summary, checked, posted>>

NotAttached == [attached |-> FALSE, rules |-> [f \in Fields |-> {}]]
FieldsOf(form) == {f \in Fields : FormOf[f] = form}

(***************************************************************************)
(* Rules of the element itself                                             *)
(***************************************************************************)

\* Classes that are rules; attributes of HTML that are rules by the same name.
ClassRuleSettings == {"required", "email", "url", "date", "dateISO", "number", "digits", "creditcard"}
HtmlRules == {"required", "min", "max", "step", "minlength", "maxlength"}

\* A type is a rule if the plugin has a method of that name, "date" that of dateISO.
TypeRule(type) == IF type = "date" THEN {"dateISO"} ELSE {type} \cap {"email", "number", "url"}
AttributeRules(f) == (Markup[f].attributes \cap HtmlRules) \cup TypeRule(Markup[f].type)
NativeRules(f) == (Markup[f].classes \cap ClassRuleSettings) \cup AttributeRules(f)

\* A field with a message element is parsed, or nothing can be wrong with it for
\* the script; only a checkbox without rules has no place for its errors.
ASSUME MessagesAssumption ==
    \A f \in Fields :
       /\ f \in WithSpan => f \in DataVal \/ NativeRules(f) = {}
       /\ \/ FormOf[f] \in WithSummary
          \/ f \in WithSpan \cup Ignored
          \/ f \in Checkboxes /\ NativeRules(f) = {} /\ DOMAIN Attributes[f] \subseteq {"required"}

(***************************************************************************)
(* Adapters: from data-val-* to rules                                      *)
(***************************************************************************)

BoolAdapters == {"creditcard", "date", "digits", "email", "number", "url"}
\* The rule for a minimum alone, for a maximum alone, for both.
MinMaxAdapters == [length    |-> <<"minlength", "maxlength", "rangelength">>,
                   range     |-> <<"min", "max", "range">>,
                   minlength |-> <<"minlength", "none", "none">>,
                   maxlength |-> <<"minlength", "maxlength", "none">>]
\* Adapters with one value and their rules. Without a method "extension" the
\* script makes "accept" of that adapter and has none of this name.
SingleValAdapters == [regex |-> "regex", extension |-> "accept", fileextensions |-> "extension"]
PasswordRules == [min |-> "minlength", nonalphamin |-> "nonalphamin", regex |-> "regex"]

MinMaxRule(names, params) ==
    CASE {"min", "max"} \subseteq params -> {names[3]}
      [] "min" \in params /\ "max" \notin params -> {names[1]}
      [] "max" \in params /\ "min" \notin params -> {names[2]}
      [] OTHER -> {}

\* Names are unique in a form: a name is the element that has it.
Named(form, names) == FieldsOf(form) \cap names
\* equalto: the element named by the parameter, which the field must repeat.
OtherElement(f) == CHOOSE g \in Named(FormOf[f], Attributes[f]["equalto"]) : TRUE

\* A checkbox cannot be required: for the plugin that would mean checked.
RequiredRule(f) == IF f \in Checkboxes THEN {} ELSE {"required"}

\* What an attribute with the name of an adapter adds to the rules of f; an
\* attribute without an adapter ("phone") adds nothing.
Adapted(f, a) ==
    LET params == Attributes[f][a]
    IN CASE a \in BoolAdapters -> {a}
         [] a \in DOMAIN MinMaxAdapters -> MinMaxRule(MinMaxAdapters[a], params)
         [] a \in DOMAIN SingleValAdapters -> {SingleValAdapters[a]}
         [] a = "equalto" -> {"equalTo"}
         [] a = "required" -> RequiredRule(f)
         [] a = "password" -> {PasswordRules[p] : p \in params \cap DOMAIN PasswordRules}
         [] OTHER -> {}

\* setValidationValues: each adapter adds its rules to those of the element.
ValidationValues(f) == UNION {Adapted(f, a) : a \in DOMAIN Attributes[f]}
\* parseElement: the rules of one element. "__dummy__" accepts everything.
ParsedRules(f) == {"__dummy__"} \cup ValidationValues(f)
\* parse: only elements with data-val=true are parsed.
StaticRules(f) == IF f \in DataVal THEN ParsedRules(f) ELSE {}

(***************************************************************************)
(* Checks (the plugin)                                                     *)
(***************************************************************************)

Formats == {"email", "url", "date", "dateISO", "number", "digits", "regex"}

\* Every method but "required" and "nonalphamin" passes for an empty value
\* ("equalTo" compares it like any other). What is no number is in no range.
Rejects(rule) ==
    CASE rule = "required" -> {"absent"}
      [] rule = "nonalphamin" -> {"absent", "short"}
      [] rule = "minlength" -> {"short"}
      [] rule = "maxlength" -> {"long"}
      [] rule = "rangelength" -> {"short", "long"}
      [] rule = "min" -> {"low", "malformed"}
      [] rule = "max" -> {"high", "malformed"}
      [] rule = "range" -> {"low", "high", "malformed"}
      [] rule = "step" -> {"uneven", "malformed"}
      [] rule \in Formats -> {"malformed"}
      [] OTHER -> {}

\* Only the rules that were parsed.
RulesOf_faulty(f) == validator[FormOf[f]].rules[f]

\* rules(): those of classes, attributes and type, and the parsed ones, which
\* replace those of the same name; computed anew for every check.
RulesOf(f) == NativeRules(f) \cup validator[FormOf[f]].rules[f]
Flawed(f) == \E rule \in RulesOf(f) : value'[f] \in Rejects(rule)
Rejected(f) == \/ Flawed(f)
               \/ /\ "equalTo" \in RulesOf(f)
                  /\ value'[f] # value'[OtherElement(f)]
Message(f) == IF Flawed(f) THEN value'[f] ELSE "different"
\* An optional field left empty is neither right nor wrong if a single rule,
\* satisfied only because nothing was entered, is all there is.
Undecided(f) == /\ ~Rejected(f) /\ value'[f] = "absent"
                /\ \E rule \in RulesOf(f) : RulesOf(f) = {rule} /\ rule \notin {"equalTo", "__dummy__", "regex"}

\* The fields a validator has rules for, parsed or not, and does not ignore. (To
\* check a field without rules changes nothing.)
Watched(form) == {f \in FieldsOf(form) \ Ignored : validator[form].attached /\ RulesOf(f) # {}}

\* The class of the element is not changed back.
Shown_faulty(f) ==
    CASE f \notin WithSpan \/ Undecided(f) -> span[f]
      [] f \in WithSpan /\ Rejected(f) -> [class |-> "error", text |-> Message(f)]
      [] OTHER -> [class |-> span[f].class, text |-> "fine"]

\* onError puts the message into the field's element; onSuccess empties it.
Shown(f) ==
    CASE f \notin WithSpan \/ Undecided(f) -> span[f]
      [] f \in WithSpan /\ Rejected(f) -> [class |-> "error", text |-> Message(f)]
      [] OTHER -> [class |-> "valid", text |-> "fine"]

\* The effects of checking a set of fields with their new values.
Check(fields) ==
    /\ span' = [f \in Fields |-> IF f \in fields THEN Shown(f) ELSE span[f]]
    /\ checked' = [f \in Fields |-> IF f \notin fields \cap WithSpan THEN checked[f]
                                    ELSE IF Rejected(f) THEN Message(f) ELSE "fine"]
    /\ submitted' = submitted \cup {f \in fields : Rejected(f)}

FormTypeOK ==
    /\ DOMAIN validator = Forms
    /\ summary \in [Forms -> [class : {"valid", "error"},
                              items : SUBSET ((Fields \cup Forms) \X (Flaws \cup {"server"}))]]
    /\ posted \in [Forms -> {"no", "checked", "unchecked"}]
    /\ value \in [Fields -> Values] /\ rendered \in [Fields -> Values]
    /\ submitted \cup invalid \subseteq Fields \ Ignored
    /\ span \in [Fields -> [class : {"valid", "error"}, text : Values \cup {"server"}]]
    /\ checked \in [Fields -> Values \cup {"never", "server"}]

(***************************************************************************)
(* The document                                                            *)
(***************************************************************************)

\* The page as the server renders it: empty, or again after it refused the
\* fields in `refused` or a whole form (`blamed`: a model error without a field),
\* with its own messages and what had been entered.
RenderedForm(refused, blamed, entered) ==
    /\ validator' = [form \in Forms |-> NotAttached]
    /\ value' = entered /\ rendered' = entered
    /\ submitted' = {} /\ invalid' = {}
    /\ span' = [f \in Fields |->
          IF f \in refused \cap WithSpan THEN [class |-> "error", text |-> "server"]
                                         ELSE [class |-> "valid", text |-> "fine"]]
    /\ summary' = [form \in Forms |->
          LET items == ((refused \cap FieldsOf(form)) \cup (blamed \cap {form})) \X {"server"}
          IN IF items # {} /\ form \in WithSummary
             THEN [class |-> "error", items |-> items]
             ELSE [class |-> "valid", items |-> {}]]
    /\ checked' = [f \in Fields |-> IF f \in refused \cap WithSpan THEN "server" ELSE "never"]
    /\ posted' = [form \in Forms |-> "no"]

FormInit ==
    /\ validator = [form \in Forms |-> NotAttached]
    /\ value = Prefilled /\ rendered = Prefilled
    /\ submitted = {} /\ invalid = {}
    /\ span = [f \in Fields |-> [class |-> "valid", text |-> "fine"]]
    /\ summary = [form \in Forms |-> [class |-> "valid", items |-> {}]]
    /\ checked = [f \in Fields |-> "never"]
    /\ posted = [form \in Forms |-> "no"]

\* parse(document), when jQuery is ready: parseElement collects the rules of
\* every element, then attachValidation gives them to a validator; a form without
\* data-val=true gets none, and a validator that exists keeps the rules it has.
Parsable(form) == FieldsOf(form) \cap DataVal # {} /\ ~validator[form].attached
Attach(forms, rules) ==
    validator' = [form \in Forms |->
        IF form \in forms /\ Parsable(form)
        THEN [attached |-> TRUE,
              rules |-> [f \in Fields |-> IF FormOf[f] = form THEN rules[f] ELSE {}]]
        ELSE validator[form]]

ParseDocument(forms) ==
    /\ \E form \in forms : Parsable(form)
    /\ Attach(forms, [f \in Fields |-> StaticRules(f)])
    /\ UNCHANGED <<value, rendered, submitted, invalid, span, summary, checked, posted>>

(***************************************************************************)
(* Events                                                                  *)
(***************************************************************************)

\* validator.element: one field is checked and its name remembered.
CheckOne(f) == Check({f}) /\ invalid' = invalid \cup {f}
Unchecked == UNCHANGED <<span, checked, submitted, invalid>>

\* A key is released in a field: only fields that failed before are checked.
KeyUp(f, v) ==
    /\ v \in Entries[f] /\ f \notin Ignored
    /\ value' = [value EXCEPT ![f] = v]
    /\ IF f \in Watched(FormOf[f]) \cap (submitted \cup invalid) THEN CheckOne(f) ELSE Unchecked
    /\ UNCHANGED <<validator, rendered, summary, posted>>

\* The value changes without a key (a picker, a paste, the browser's autofill).
Fill(f, v) ==
    /\ v \in Entries[f] /\ f \notin Ignored
    /\ value' = [value EXCEPT ![f] = v]
    /\ Unchecked
    /\ UNCHANGED <<validator, rendered, summary, posted>>

\* The field is left: checked unless it is empty and was never found wrong.
FocusOut(f) ==
    /\ f \in Watched(FormOf[f]) /\ f \notin Checkboxes
    /\ f \in submitted \/ value[f] # "absent"
    /\ UNCHANGED value
    /\ CheckOne(f)
    /\ UNCHANGED <<validator, rendered, summary, posted>>

\* The form is sent.
Send(form, how) == posted' = [posted EXCEPT ![form] = how]

\* Until a validator turns the browser's own checks off (novalidate), these hold a
\* form back. Lengths are checked by none of them: nobody can type past a maximum.
BrowserRefuses(f) ==
    \E rule \in AttributeRules(f) \ {"minlength", "maxlength"} : value[f] \in Rejects(rule)

SubmitUnchecked(form) ==
    /\ ~validator[form].attached
    /\ \A f \in FieldsOf(form) \ Ignored : ~BrowserRefuses(f)
    /\ Send(form, "unchecked")
    /\ UNCHANGED <<validator, value, rendered, submitted, invalid, span, summary, checked>>

\* validator.form(): all fields are checked; errors call onErrors, which lists
\* them in the summary, and stop the submission.
RefusedFields(form) == {f \in Watched(form) : Rejected(f)}
\* A summary that shows errors already is not written again.
Listed_faulty(form, fields) ==
    IF form \in WithSummary /\ fields # {} /\ summary[form].class = "valid"
    THEN [summary EXCEPT ![form] = [class |-> "error", items |-> {<<f, Message(f)>> : f \in fields}]]
    ELSE summary

Listed(form, fields) ==
    IF form \in WithSummary /\ fields # {}
    THEN [summary EXCEPT ![form] = [class |-> "error", items |-> {<<f, Message(f)>> : f \in fields}]]
    ELSE summary

SubmitChecked(form) ==
    /\ validator[form].attached
    /\ UNCHANGED value
    /\ Check(Watched(form))
    /\ invalid' = (invalid \ FieldsOf(form)) \cup RefusedFields(form)
    /\ summary' = Listed(form, RefusedFields(form))
    /\ IF RefusedFields(form) = {} THEN Send(form, "checked") ELSE UNCHANGED posted
    /\ UNCHANGED <<validator, rendered>>

\* onReset: the validator forgets, the classes say "valid" again. The messages
\* stay in their elements: the labels lost the class resetForm looks for.
Forget(form) ==
    /\ submitted' = submitted \ FieldsOf(form)
    /\ invalid' = invalid \ FieldsOf(form)
    /\ summary' = [summary EXCEPT ![form].class = "valid"]
    /\ span' = [f \in Fields |-> IF FormOf[f] = form THEN [span[f] EXCEPT !.class = "valid"]
                                                     ELSE span[f]]
    /\ checked' = [f \in Fields |-> IF FormOf[f] = form THEN "never" ELSE checked[f]]

\* The browser restores what the server rendered; a script that has attached a
\* validator follows.
Reset(form) ==
    /\ form \in Resettable
    /\ value' = [f \in Fields |-> IF FormOf[f] = form THEN rendered[f] ELSE value[f]]
    /\ IF validator[form].attached THEN Forget(form)
                                   ELSE Unchecked /\ UNCHANGED summary
    /\ UNCHANGED <<validator, rendered, posted>>

\* What can happen to the forms of the page shown.
FormNext(forms) ==
    \E form \in forms :
       \/ \E f \in FieldsOf(form), v \in Values : KeyUp(f, v) \/ Fill(f, v)
       \/ \E f \in FieldsOf(form) : FocusOut(f)
       \/ SubmitUnchecked(form) \/ SubmitChecked(form) \/ Reset(form)

(***************************************************************************)
(* Properties                                                              *)
(***************************************************************************)

\* What the classes, attributes, type and data-val-* of a field ask for, read
\* without rules and adapters.
Demanded(f) ==
    LET asked == DOMAIN Attributes[f]
        marked == Markup[f].attributes
        classes == Markup[f].classes
    IN {w \in Flaws :
          \/ w = "absent" /\ \/ "required" \in asked /\ f \notin Checkboxes
                             \/ "required" \in marked \cup classes
          \/ w \in {"absent", "short"} /\ "password" \in asked
                                       /\ "nonalphamin" \in Attributes[f]["password"]
          \/ w = "short" /\ \/ "minlength" \in marked
                            \/ \E a \in asked \cap {"length", "minlength", "password"} :
                                  "min" \in Attributes[f][a]
          \/ w = "long" /\ \/ "maxlength" \in marked
                           \/ \E a \in asked \cap {"length", "maxlength"} : "max" \in Attributes[f][a]
          \/ w = "low" /\ ("range" \in asked \/ "min" \in marked)
          \/ w = "high" /\ ("range" \in asked \/ "max" \in marked)
          \/ w = "uneven" /\ "step" \in marked
          \/ w = "malformed" /\ \/ asked \cap (BoolAdapters \cup {"range", "regex"}) # {}
                                \/ "password" \in asked /\ "regex" \in Attributes[f]["password"]
                                \/ marked \cap {"min", "max", "step"} # {}
                                \/ Markup[f].type \in {"date", "email", "number", "url"}
                                \/ classes \cap {"date", "dateISO", "digits", "email", "number", "url"} # {}}

\* Once its validator is attached, a submitted form reaches the server if and
\* only if no visible field has a flaw that its data-val-* attributes, its HTML
\* attributes, its type or its classes exclude: neither is a bad form let through
\* nor a good one held back. (Before that, only the browser looks at it.)
PostsExactlyTheAcceptable ==
    [][\A form \in Forms : SubmitChecked(form) /\ posted[form] = "no" =>
          (posted'[form] = "checked"
              <=> \A f \in FieldsOf(form) \ Ignored :
                    /\ value[f] \notin Demanded(f)
                    /\ "equalto" \in DOMAIN Attributes[f] => value[f] = value[OtherElement(f)])]_formVars

\* A refused submission is explained: every field that stopped it has its
\* message beside it or in the summary.
RefusalIsExplained ==
    [][\A form \in Forms : SubmitChecked(form) =>
          \A f \in RefusedFields(form) :
              \/ span'[f] = [class |-> "error", text |-> Message(f)]
              \/ <<f, Message(f)>> \in summary'[form].items]_formVars

\* The message beside a field is that of its last check: an error is shown as
\* long as the last check (or the server) found one, and no longer, also when an
\* optional field was emptied.
MessageFollowsCheck ==
    \A f \in WithSpan :
        /\ span[f].class = "error" <=> checked[f] \notin {"never", "fine"}
        /\ span[f].class = "error" => span[f].text = checked[f]
        /\ checked[f] = "fine" => span[f].text = "fine"

\* Why these hold. The parsed rules of a form are those its data-val-* attributes
\* ask for, all of them, from the moment it has a validator; a summary is about its
\* own form.
RulesAreParsed(form) ==
    \/ validator[form] = NotAttached
    \/ validator[form] = [attached |-> TRUE,
                          rules |-> [f \in Fields |-> IF FormOf[f] = form THEN StaticRules(f)
                                                                       ELSE {}]]

FormIInv ==
    /\ FormTypeOK /\ MessageFollowsCheck
    /\ \A form \in Forms : /\ RulesAreParsed(form)
                           /\ \A item \in summary[form].items : item[1] \in FieldsOf(form) \cup {form}
=============================================================================
