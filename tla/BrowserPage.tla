---------------------------- MODULE BrowserPage ----------------------------
(* One browser tab: the scripts of the page and the validation of its forms *)
(* share the page, which is left by a link, by the answer to a posted form  *)
(* or by a reload, and starts again from what the server renders.           *)
EXTENDS PageScripts, FormValidation

CONSTANT FormsOn   \* [Pages -> sets of forms]: the forms of each page
ASSUME FormsOnAssumption == FormsOn \in [Pages -> SUBSET Forms]

vars == <<pageVars, formVars>>

Init == PageInit /\ FormInit

\* A page is opened: a link, a reload, the answer to a form.
Navigate(p) ==
    /\ PageLoad(p)
    /\ RenderedForm({}, {}, Prefilled)

\* What the server puts into the fields of a form it refused: what it got, but
\* for passwords. (Taken from the fields, which may be edited while it works.)
Returned == [f \in Fields |-> IF Markup[f].type = "password" THEN "absent" ELSE value[f]]

\* The server refuses what was posted, for some fields or with a business rule
\* that names none, and renders the form again with its own messages.
ServerRefuses(form) ==
    /\ posted[form] # "no"
    /\ PageLoad(page)
    /\ \E refused \in SUBSET (FieldsOf(form) \ Ignored), blamed \in SUBSET {form} :
         refused \cup blamed # {} /\ RenderedForm(refused, blamed, Returned)

\* jQuery runs its ready handlers after the listeners of DOMContentLoaded.
JQueryReady == loaded /\ ParseDocument(FormsOn[page]) /\ UNCHANGED pageVars

Next ==
    \/ \E p \in Pages : Navigate(p)
    \/ \E form \in FormsOn[page] : ServerRefuses(form)
    \/ PageNext /\ UNCHANGED formVars
    \/ JQueryReady
    \/ FormNext(FormsOn[page]) /\ UNCHANGED pageVars

\* The browser keeps drawing frames while the page is shown.
Fairness == \A c \in Counters : WF_vars(AnimationFrame(c) /\ UNCHANGED formVars)

Spec == Init /\ [][Next]_vars /\ Fairness

\* The state of the scripts and of the forms is well formed, and related as the
\* properties need it.
IInv == PageIInv /\ FormIInv
=============================================================================
