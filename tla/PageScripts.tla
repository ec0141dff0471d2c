---------------------------- MODULE PageScripts ----------------------------
(* The scripts every page of the web application loads (site.js): theme,   *)
(* quick search and status filter of tables, animated counters, copy       *)
(* buttons. One action per event the browser delivers; events come in any  *)
(* order, timers and frames of one element in the order of their times.    *)
(* Covered: leaving and reloading the page at any time, another tab that    *)
(* writes the same localStorage, a clipboard that refuses, a second copy    *)
(* before the caption of the first is restored.                            *)
EXTENDS Integers, Sequences, FiniteSets

CONSTANTS
    Pages,       \* the pages of the application
    ElementsOn,  \* [Pages -> sets of elements]: tables, counters, buttons
    Tables, RowsOf,       \* tables and the rows of each
    Terms, RowsWith,      \* search terms and the rows whose text has each
    Statuses, StatusesIn, \* filter statuses; those the badge of a row contains
    NoBadge,              \* rows without a badge
    Counters, Target, Currency,  \* counters, their values (in cents if Currency)
    Duration, LastTick,   \* length of an animation, bound of its clock
    CopyButtons, MaxCopies \* copy buttons, bound of copies under way

ASSUME PagesAssumption == \A p \in Pages : ElementsOn[p] \subseteq Tables \cup Counters \cup CopyButtons
ASSUME RowsAssumption == \A t, u \in Tables : t # u => RowsOf[t] \cap RowsOf[u] = {}
ASSUME BoundsAssumption == Target \in [Counters -> Int] /\ MaxCopies \in Nat
ASSUME ClockAssumption == Duration \in Nat \ {0} /\ LastTick \in Nat /\ LastTick >= Duration

VARIABLES
    page, loaded,        \* page shown; whether DOMContentLoaded was handled
    theme, icon,         \* data-bs-theme of the page; theme the button offers
    stored, osTheme,     \* localStorage['theme-preference']; preference of the system
    otherTab,            \* history: another tab stored a theme after this page read or did
    hidden, decider,     \* rows hidden; history: the control last used on each table
    counter,             \* text and animation of each counter
    copy                 \* caption, class, timers of each copy button

pageVars == <<page, loaded, theme, icon, stored, osTheme, otherTab,
              hidden, decider, counter, copy>>

Themes == {"light", "dark"}
Nothing == "nothing"
AllStatuses == "all"
Opposite(t) == IF t = "dark" THEN "light" ELSE "dark"
Here(elements) == elements \cap ElementsOn[page]
RowsHere == UNION {RowsOf[t] : t \in Here(Tables)}

Untouched == [by |-> Nothing, what |-> Nothing]
IdleCounter(c) == [text |-> Target[c], queued |-> FALSE, tick |-> -2]
IdleButton == [caption |-> "original", success |-> FALSE, timers |-> <<>>,
               writing |-> 0, overlapped |-> FALSE]

Captions == {"original", "copied"}

PageTypeOK ==
    /\ page \in Pages /\ loaded \in BOOLEAN /\ otherTab \in BOOLEAN
    /\ theme \in Themes /\ icon \in Themes \cup {Nothing}
    /\ stored \in Themes \cup {Nothing} /\ osTheme \in Themes
    /\ hidden \subseteq RowsHere
    /\ decider \in [Tables -> [by : {Nothing, "search", "status"},
                               what : Terms \cup Statuses \cup {AllStatuses, Nothing}]]
    /\ counter \in [Counters -> [text : Int, queued : BOOLEAN, tick : -2 .. LastTick]]
    /\ copy \in [CopyButtons -> [caption : Captions, success : BOOLEAN, timers : Seq(Captions),
                                 writing : Nat, overlapped : BOOLEAN]]

(***************************************************************************)
(* Loading a page                                                          *)
(***************************************************************************)

\* The document as the server rendered it, before any script has run.
Rendered ==
    /\ loaded' = FALSE
    /\ theme' = "light" /\ icon' = Nothing
    /\ hidden' = {} /\ decider' = [t \in Tables |-> Untouched]
    /\ counter' = [c \in Counters |-> IdleCounter(c)]
    /\ copy' = [b \in CopyButtons |-> IdleButton]

PageInit ==
    /\ page \in Pages /\ loaded = FALSE
    /\ theme = "light" /\ icon = Nothing
    /\ stored = Nothing /\ osTheme \in Themes /\ otherTab = FALSE
    /\ hidden = {} /\ decider = [t \in Tables |-> Untouched]
    /\ counter = [c \in Counters |-> IdleCounter(c)]
    /\ copy = [b \in CopyButtons |-> IdleButton]

PageLoad(p) ==
    /\ page' = p
    /\ Rendered
    /\ UNCHANGED <<stored, osTheme, otherTab>>

\* A page that reads localStorage without a fallback.
SavedTheme_faulty == stored
\* A page that prefers the system's theme to the stored one.
SavedTheme_system_faulty == osTheme

\* initializeThemeToggle: the theme a page starts with.
SavedTheme == IF stored # Nothing THEN stored ELSE osTheme

\* animateStatCounters asks for a first frame for every counter above zero.
Animated(c) == c \in Here(Counters) /\ Target[c] > 0

DOMContentLoaded ==
    /\ ~loaded
    /\ loaded' = TRUE
    /\ theme' = SavedTheme
    /\ icon' = Opposite(SavedTheme)
    /\ otherTab' = FALSE
    /\ counter' = [c \in Counters |-> [counter[c] EXCEPT !.queued = Animated(c)]]
    /\ UNCHANGED <<page, stored, osTheme, hidden, decider, copy>>

(***************************************************************************)
(* Theme                                                                   *)
(***************************************************************************)

ToggleTheme ==
    /\ loaded
    /\ theme' = Opposite(theme)
    /\ icon' = theme
    /\ stored' = Opposite(theme)
    /\ otherTab' = FALSE
    /\ UNCHANGED <<page, loaded, osTheme, hidden, decider, counter, copy>>

\* The same handler in another tab: this page is not told.
ToggleElsewhere(t) ==
    /\ stored' = t /\ otherTab' = TRUE
    /\ UNCHANGED <<page, loaded, theme, icon, osTheme, hidden, decider, counter, copy>>

\* The system switches its colour scheme; nothing listens to it.
SystemTheme(t) ==
    /\ osTheme' = t
    /\ UNCHANGED <<page, loaded, theme, icon, stored, otherTab, hidden, decider, counter, copy>>

(***************************************************************************)
(* Tables                                                                  *)
(***************************************************************************)

\* Rows of table t that the quick search hides for a term.
NotMatching(t, term) == RowsOf[t] \ RowsWith[term]
\* Rows of table t that a status button hides. A badge that contains the
\* status as a part ("inactive") passes for it ("active").
OtherStatus(t, s) ==
    IF s = AllStatuses THEN {}
    ELSE {r \in RowsOf[t] \ NoBadge : s \notin StatusesIn[r]}

\* keyup in the search field of a table: only rows of this table change.
SearchKeyUp(t, term) ==
    /\ loaded /\ t \in Here(Tables)
    /\ hidden' = (hidden \ RowsOf[t]) \cup NotMatching(t, term)
    /\ decider' = [decider EXCEPT ![t] = [by |-> "search", what |-> term]]
    /\ UNCHANGED <<page, loaded, theme, icon, stored, osTheme, otherTab, counter, copy>>

\* Rows without a badge are left as they are.
StatusClick_faulty(s) ==
    /\ loaded /\ Here(Tables) # {}
    /\ hidden' = (hidden \cap NoBadge) \cup UNION {OtherStatus(t, s) : t \in Here(Tables)}
    /\ decider' = [t \in Tables |-> IF t \in Here(Tables) THEN [by |-> "status", what |-> s]
                                                           ELSE decider[t]]
    /\ UNCHANGED <<page, loaded, theme, icon, stored, osTheme, otherTab, counter, copy>>

\* A status button writes the display of every row of every table.
StatusClick(s) ==
    /\ loaded /\ Here(Tables) # {}
    /\ hidden' = UNION {OtherStatus(t, s) : t \in Here(Tables)}
    /\ decider' = [t \in Tables |-> IF t \in Here(Tables) THEN [by |-> "status", what |-> s]
                                                           ELSE decider[t]]
    /\ UNCHANGED <<page, loaded, theme, icon, stored, osTheme, otherTab, counter, copy>>

(***************************************************************************)
(* Counters                                                                *)
(***************************************************************************)

\* Progress that is not cut at 1.
AtMost_faulty(a, b) == a

AtMost(a, b) == IF a <= b THEN a ELSE b
\* The text after `elapsed` of the animation: an amount is rounded to cents,
\* a number is cut to an integer.
CounterText(c, elapsed) ==
    LET progress == AtMost(elapsed, Duration)
    IN IF c \in Currency THEN (2 * Target[c] * progress + Duration) \div (2 * Duration)
                         ELSE (Target[c] * progress) \div Duration

\* A frame carries the time at which it began, which for the first one may lie
\* before the call that asked for it (tick -1).
AnimationFrame(c) ==
    /\ counter[c].queued
    /\ \E tick \in counter[c].tick + 1 .. LastTick :
         counter' = [counter EXCEPT ![c] = [text |-> CounterText(c, tick),
                                            queued |-> tick < Duration,
                                            tick |-> tick]]
    /\ UNCHANGED <<page, loaded, theme, icon, stored, osTheme, otherTab, hidden, decider, copy>>

(***************************************************************************)
(* Copy buttons                                                            *)
(***************************************************************************)

CopyClick(b) ==
    /\ loaded /\ b \in Here(CopyButtons)
    /\ copy[b].writing + Len(copy[b].timers) < MaxCopies
    /\ copy' = [copy EXCEPT ![b].writing = @ + 1]
    /\ UNCHANGED <<page, loaded, theme, icon, stored, osTheme, otherTab, hidden, decider, counter>>

\* The caption is read after it was replaced.
Copied_faulty(b) ==
    /\ copy[b].writing > 0
    /\ copy' = [copy EXCEPT ![b].writing = @ - 1,
                            ![b].timers = Append(@, "copied"),
                            ![b].overlapped = @ \/ copy[b].caption = "copied",
                            ![b].caption = "copied",
                            ![b].success = TRUE]
    /\ UNCHANGED <<page, loaded, theme, icon, stored, osTheme, otherTab, hidden, decider, counter>>

\* The promise of writeText resolves: what the caption is now is kept for later.
Copied(b) ==
    /\ copy[b].writing > 0
    /\ copy' = [copy EXCEPT ![b].writing = @ - 1,
                            ![b].timers = Append(@, copy[b].caption),
                            ![b].overlapped = @ \/ copy[b].caption = "copied",
                            ![b].caption = "copied",
                            ![b].success = TRUE]
    /\ UNCHANGED <<page, loaded, theme, icon, stored, osTheme, otherTab, hidden, decider, counter>>

\* It is refused: nothing handles the rejection.
CopyRefused(b) ==
    /\ copy[b].writing > 0
    /\ copy' = [copy EXCEPT ![b].writing = @ - 1]
    /\ UNCHANGED <<page, loaded, theme, icon, stored, osTheme, otherTab, hidden, decider, counter>>

\* 1.8 seconds later.
RestoreCaption(b) ==
    /\ copy[b].timers # <<>>
    /\ copy' = [copy EXCEPT ![b].caption = Head(copy[b].timers),
                            ![b].timers = Tail(@),
                            ![b].success = FALSE]
    /\ UNCHANGED <<page, loaded, theme, icon, stored, osTheme, otherTab, hidden, decider, counter>>

PageNext ==
    \/ DOMContentLoaded
    \/ ToggleTheme
    \/ \E t \in Themes : ToggleElsewhere(t) \/ SystemTheme(t)
    \/ \E t \in Tables, term \in Terms : SearchKeyUp(t, term)
    \/ \E s \in Statuses \cup {AllStatuses} : StatusClick(s)
    \/ \E c \in Counters : AnimationFrame(c)
    \/ \E b \in CopyButtons : CopyClick(b) \/ Copied(b) \/ CopyRefused(b) \/ RestoreCaption(b)

(***************************************************************************)
(* Properties                                                              *)
(***************************************************************************)

\* The choice of the user survives the page ("persistent dark/light mode
\* toggle", README.md:63): what is stored is what is shown unless another tab
\* stored something since, and the button always offers the other theme.
ThemePersists ==
    loaded => /\ stored \in {theme, Nothing} \/ otherTab
              /\ icon = Opposite(theme)

\* Search and filter overwrite each other's display of the rows they share,
\* and never leave a mixture: the rows of each table are those the control
\* last used on that table alone would hide.
OneControlDecides ==
    \A t \in Here(Tables) :
        hidden \cap RowsOf[t] =
            CASE decider[t].by = "search" -> NotMatching(t, decider[t].what)
              [] decider[t].by = "status" -> OtherStatus(t, decider[t].what)
              [] OTHER -> {}

\* When no timer and no copy is under way the caption of a copy button is its
\* own again, unless two copies overlapped: the second one then took "Copied!"
\* for the caption to restore.
CaptionComesBack ==
    \A b \in CopyButtons :
        copy[b].timers = <<>> /\ copy[b].caption = "copied" => copy[b].overlapped

\* Why this and the next hold. No counter runs before the page is loaded; one that
\* does not run shows its target, one that runs is before the end of the animation
\* and not beyond its target.
CounterOK(c) ==
    /\ counter[c].queued => /\ Target[c] > 0 /\ counter[c].tick < Duration
                            /\ counter[c].text \in -Target[c] .. Target[c]
    /\ ~counter[c].queued => counter[c].text = Target[c]
    /\ ~loaded => counter[c] = IdleCounter(c)
\* Without overlap, a button that says "Copied!" has the one timer that ends it.
CopyOK(b) ==
    /\ copy[b].writing + Len(copy[b].timers) <= MaxCopies
    /\ copy[b].overlapped
       \/ (copy[b].caption = "original" /\ copy[b].timers = <<>> /\ ~copy[b].success)
       \/ (copy[b].caption = "copied" /\ copy[b].timers = <<"original">> /\ copy[b].success)

PageIInv ==
    /\ PageTypeOK /\ ThemePersists /\ OneControlDecides
    /\ \A c \in Counters : CounterOK(c)
    /\ \A b \in CopyButtons : CopyOK(b)

\* A counter that started to run stops at its target, whatever the times of
\* its frames, unless the page is left first.
CounterSettles ==
    \A c \in Counters :
        counter[c].queued ~> (counter[c].text = Target[c] /\ ~counter[c].queued) \/ ~loaded
=============================================================================
