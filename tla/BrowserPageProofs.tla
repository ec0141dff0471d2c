------------------------- MODULE BrowserPageProofs -------------------------
(***************************************************************************)
(* The scripts of a page and the validation of its forms keep what they    *)
(* promise for all pages, tables, counters, forms and attributes.          *)
(*                                                                         *)
(* Sections 1 to 3 are about the scripts (PageIInv), 4 to 6 about the      *)
(* forms (FormIInv): their steps leave each other's state alone, and a     *)
(* page that is left starts again in a state that satisfies both.          *)
(***************************************************************************)
EXTENDS BrowserPage, TLAPS

-----------------------------------------------------------------------------
(* 1. The text of a counter *)

LEMMA Quotients ==
  ASSUME NEW a \in Int, NEW b \in Nat \ {0}
  PROVE  /\ a \div b \in Int
         /\ \A l \in Int : l * b <= a => l <= a \div b
         /\ \A u \in Int : a < (u + 1) * b => a \div b <= u
<1> DEFINE q == a \div b
<1>1. q \in Int /\ q * b <= a /\ a < (q + 1) * b
  OBVIOUS
<1> HIDE DEF q
<1>2. ASSUME NEW l \in Int, l * b <= a
      PROVE  l <= q
  <2>1. l * b < (q + 1) * b
    BY <1>1, <1>2
  <2> QED BY <1>1, <2>1
<1>3. ASSUME NEW u \in Int, a < (u + 1) * b
      PROVE  q <= u
  <2>1. q * b < (u + 1) * b
    BY <1>1, <1>3
  <2> QED BY <1>1, <2>1
<1> QED BY <1>1, <1>2, <1>3 DEF q

(* At the end of the animation a counter shows its target; on the way, not  *)
(* more than that, and not less than its opposite (before the start).       *)
LEMMA TextOfCounter ==
  ASSUME NEW c \in Counters, NEW tick \in -1 .. LastTick
  PROVE  /\ CounterText(c, tick) \in Int
         /\ tick >= Duration => CounterText(c, tick) = Target[c]
         /\ Target[c] > 0 => CounterText(c, tick) \in -Target[c] .. Target[c]
<1> DEFINE t == Target[c]
           d == Duration
           p == AtMost(tick, Duration)
<1>1. t \in Int /\ d \in Nat \ {0} /\ LastTick \in Nat
  BY BoundsAssumption, ClockAssumption
<1>2. p \in Int /\ -1 <= p /\ p <= d /\ (tick >= d => p = d)
  BY <1>1 DEF AtMost
<1>3. CounterText(c, tick) = IF c \in Currency THEN (2 * t * p + d) \div (2 * d) ELSE (t * p) \div d
  BY DEF CounterText
<1> HIDE DEF t, d, p
<1>4. t * p \in Int /\ 2 * d \in Nat \ {0} /\ 2 * t * p + d \in Int /\ 2 * t * p = 2 * (t * p)
  BY <1>1, <1>2
<1>5. CounterText(c, tick) \in Int
  BY <1>1, <1>3, <1>4, Quotients
<1>6. p = d => CounterText(c, tick) = t
  <2> SUFFICES ASSUME p = d
               PROVE  CounterText(c, tick) = t
    OBVIOUS
  <2>1. t * (2 * d) = 2 * (t * p) /\ (t + 1) * (2 * d) = 2 * (t * p) + 2 * d
    BY <1>1
  <2>2. (t + 1) * d = t * p + d
    BY <1>1
  <2>3. CASE c \in Currency
    <3>1. t * (2 * d) <= 2 * t * p + d /\ 2 * t * p + d < (t + 1) * (2 * d)
      BY <1>1, <1>4, <2>1
    <3>2. t <= (2 * t * p + d) \div (2 * d) /\ (2 * t * p + d) \div (2 * d) <= t
      BY <1>1, <1>4, <3>1, Quotients
    <3> QED BY <1>1, <1>3, <1>5, <2>3, <3>2
  <2>4. CASE c \notin Currency
    <3>1. t <= (t * p) \div d /\ (t * p) \div d <= t
      BY <1>1, <1>4, <2>2, Quotients
    <3> QED BY <1>1, <1>3, <1>5, <2>4, <3>1
  <2> QED BY <2>3, <2>4
<1>7. t > 0 => CounterText(c, tick) \in -t .. t
  <2> SUFFICES ASSUME t > 0
               PROVE  CounterText(c, tick) \in -t .. t
    OBVIOUS
  <2>1. -t \in Int /\ -t <= t * p /\ t * p <= t * d /\ t <= t * d
    BY <1>1, <1>2
  <2>2. (-t) * d = -(t * d) /\ (t + 1) * d = t * d + d /\ t * d \in Int
    BY <1>1
  <2>3. (-t) * (2 * d) = -(2 * (t * d)) /\ (t + 1) * (2 * d) = 2 * (t * d) + 2 * d
    BY <1>1
  <2>4. CASE c \in Currency
    <3>1. (-t) * (2 * d) <= 2 * t * p + d /\ 2 * t * p + d < (t + 1) * (2 * d)
      BY <1>1, <1>4, <2>1, <2>2, <2>3
    <3>2. -t <= (2 * t * p + d) \div (2 * d) /\ (2 * t * p + d) \div (2 * d) <= t
      BY <1>1, <1>4, <3>1, Quotients
    <3> QED BY <1>1, <1>3, <1>5, <2>4, <3>2
  <2>5. CASE c \notin Currency
    <3>1. (-t) * d <= t * p /\ t * p < (t + 1) * d
      BY <1>1, <1>4, <2>1, <2>2
    <3>2. -t <= (t * p) \div d /\ (t * p) \div d <= t
      BY <1>1, <1>4, <2>1, <3>1, Quotients
    <3> QED BY <1>1, <1>3, <1>5, <2>5, <3>2
  <2> QED BY <2>4, <2>5
<1> QED BY <1>2, <1>5, <1>6, <1>7 DEF t, d

-----------------------------------------------------------------------------
(* 2. The invariant of the scripts, one part for each of them *)

ThemePart ==
    /\ page \in Pages /\ loaded \in BOOLEAN /\ otherTab \in BOOLEAN
    /\ theme \in Themes /\ icon \in Themes \cup {Nothing}
    /\ stored \in Themes \cup {Nothing} /\ osTheme \in Themes
    /\ ThemePersists
TablePart ==
    /\ hidden \subseteq RowsHere
    /\ decider \in [Tables -> [by : {Nothing, "search", "status"},
                               what : Terms \cup Statuses \cup {AllStatuses, Nothing}]]
    /\ OneControlDecides
CounterType == [text : Int, queued : BOOLEAN, tick : -2 .. LastTick]
CounterPart == counter \in [Counters -> CounterType] /\ \A c \in Counters : CounterOK(c)
ButtonType == [caption : Captions, success : BOOLEAN, timers : Seq(Captions),
               writing : Nat, overlapped : BOOLEAN]
CopyPart == copy \in [CopyButtons -> ButtonType] /\ \A b \in CopyButtons : CopyOK(b)

LEMMA PageParts ==
  /\ PageIInv <=> ThemePart /\ TablePart /\ CounterPart /\ CopyPart
  /\ PageIInv' <=> ThemePart' /\ TablePart' /\ CounterPart' /\ CopyPart'
BY DEF PageIInv, PageTypeOK, ThemePart, TablePart, CounterPart, CopyPart, CounterType, ButtonType

LEMMA Bounds == /\ \A c \in Counters : Target[c] \in Int
                /\ Duration \in Nat \ {0} /\ LastTick \in Nat /\ Duration <= LastTick
                /\ MaxCopies \in Nat
BY BoundsAssumption, ClockAssumption

(* Each part depends on its own variables only.                             *)
LEMMA PartsKept ==
  /\ ThemePart /\ UNCHANGED <<page, loaded, theme, icon, stored, osTheme, otherTab>> => ThemePart'
  /\ TablePart /\ UNCHANGED <<page, hidden, decider>> => TablePart'
  /\ CounterPart /\ UNCHANGED <<counter, loaded>> => CounterPart'
  /\ CopyPart /\ UNCHANGED copy => CopyPart'
<1>1. ThemePart /\ UNCHANGED <<page, loaded, theme, icon, stored, osTheme, otherTab>> => ThemePart'
  BY DEF ThemePart, ThemePersists
<1>2. TablePart /\ UNCHANGED <<page, hidden, decider>> => TablePart'
  BY DEF TablePart, OneControlDecides, RowsHere, Here
<1>3. CounterPart /\ UNCHANGED <<counter, loaded>> => CounterPart'
  BY DEF CounterPart, CounterOK, IdleCounter
<1>4. CopyPart /\ UNCHANGED copy => CopyPart'
  BY DEF CopyPart, CopyOK
<1> QED BY <1>1, <1>2, <1>3, <1>4

LEMMA Themed ==
  /\ \A t \in Themes : Opposite(t) \in Themes /\ Opposite(Opposite(t)) = t
  /\ Nothing \notin Themes
BY DEF Themes, Opposite, Nothing

(* A page that has just been rendered.                                      *)
LEMMA RenderedParts ==
  /\ \A c \in Counters : IdleCounter(c) \in CounterType /\ ~IdleCounter(c).queued
                         /\ IdleCounter(c).text = Target[c]
  /\ IdleButton \in ButtonType /\ IdleButton.timers = <<>> /\ IdleButton.caption = "original"
     /\ ~IdleButton.success /\ IdleButton.writing = 0
  /\ Untouched.by = Nothing
  /\ Untouched \in [by : {Nothing, "search", "status"},
                    what : Terms \cup Statuses \cup {AllStatuses, Nothing}]
<1>1. \A c \in Counters : IdleCounter(c) \in CounterType /\ ~IdleCounter(c).queued
                          /\ IdleCounter(c).text = Target[c]
  BY Bounds DEF IdleCounter, CounterType
<1>2. <<>> \in Seq(Captions)
  OBVIOUS
<1>3. IdleButton \in ButtonType /\ IdleButton.timers = <<>> /\ IdleButton.caption = "original"
      /\ ~IdleButton.success /\ IdleButton.writing = 0
  BY <1>2 DEF IdleButton, ButtonType, Captions
<1> QED BY <1>1, <1>3 DEF Untouched

LEMMA PageInitInv == PageInit => PageIInv
<1> SUFFICES ASSUME PageInit
             PROVE  PageIInv
  OBVIOUS
<1>1. ThemePart
  BY DEF PageInit, ThemePart, ThemePersists, Themes
<1>2. TablePart
  BY RenderedParts DEF PageInit, TablePart, OneControlDecides, RowsHere, Here, Nothing
<1>3. CounterPart
  BY RenderedParts DEF PageInit, CounterPart, CounterOK
<1>4. CopyPart
  BY Bounds, RenderedParts DEF PageInit, CopyPart, CopyOK
<1> QED BY <1>1, <1>2, <1>3, <1>4, PageParts

LEMMA PageLoadInv ==
  ASSUME PageIInv, NEW p \in Pages, PageLoad(p)
  PROVE  PageIInv'
<1>1. ThemePart'
  BY PageParts DEF PageLoad, Rendered, ThemePart, ThemePersists, Themes
<1>2. TablePart'
  BY RenderedParts DEF PageLoad, Rendered, TablePart, OneControlDecides, RowsHere, Here, Nothing
<1>3. CounterPart'
  BY RenderedParts DEF PageLoad, Rendered, CounterPart, CounterOK
<1>4. CopyPart'
  BY Bounds, RenderedParts DEF PageLoad, Rendered, CopyPart, CopyOK
<1> QED BY <1>1, <1>2, <1>3, <1>4, PageParts

-----------------------------------------------------------------------------
(* 3. The handlers of the scripts *)

LEMMA DOMContentLoadedInv ==
  ASSUME PageIInv, DOMContentLoaded
  PROVE  PageIInv'
<1>1. ThemePart /\ TablePart /\ CounterPart /\ CopyPart
  BY PageParts
<1>2. SavedTheme \in Themes /\ stored \in {SavedTheme, Nothing}
  BY <1>1 DEF ThemePart, SavedTheme
<1>3. ThemePart'
  BY <1>1, <1>2, Themed DEF DOMContentLoaded, ThemePart, ThemePersists
<1>4. ASSUME NEW c \in Counters
      PROVE  counter'[c] \in CounterType /\ CounterOK(c)'
  <2> DEFINE queued == Animated(c)
  <2>1. /\ counter[c] = IdleCounter(c) /\ loaded' = TRUE
        /\ counter'[c] = [counter[c] EXCEPT !.queued = queued]
        /\ queued \in BOOLEAN /\ (queued => Target[c] > 0)
    BY <1>1 DEF CounterPart, CounterOK, DOMContentLoaded, Animated
  <2> HIDE DEF queued
  <2>2. counter'[c] = [text |-> Target[c], queued |-> queued, tick |-> -2]
    BY <2>1 DEF IdleCounter
  <2> QED BY <2>1, <2>2, Bounds DEF CounterType, CounterOK
<1>5. CounterPart'
  BY <1>4 DEF CounterPart, DOMContentLoaded
<1>6. UNCHANGED <<page, hidden, decider, copy>>
  BY DEF DOMContentLoaded
<1> QED BY <1>1, <1>3, <1>5, <1>6, PartsKept, PageParts

LEMMA ThemeInv ==
  ASSUME PageIInv, NEW t \in Themes, ToggleTheme \/ ToggleElsewhere(t) \/ SystemTheme(t)
  PROVE  PageIInv'
<1>1. ThemePart /\ TablePart /\ CounterPart /\ CopyPart
  BY PageParts
<1>2. UNCHANGED <<page, loaded, hidden, decider, counter, copy>>
  BY DEF ToggleTheme, ToggleElsewhere, SystemTheme
<1>3. ThemePart'
  <2>1. CASE ToggleTheme
    BY <1>1, <1>2, <2>1, Themed DEF ToggleTheme, ThemePart, ThemePersists
  <2>2. CASE ToggleElsewhere(t)
    BY <1>1, <1>2, <2>2 DEF ToggleElsewhere, ThemePart, ThemePersists
  <2>3. CASE SystemTheme(t)
    BY <1>1, <1>2, <2>3 DEF SystemTheme, ThemePart, ThemePersists
  <2> QED BY <2>1, <2>2, <2>3
<1> QED BY <1>1, <1>2, <1>3, PartsKept, PageParts

LEMMA SearchKeyUpInv ==
  ASSUME PageIInv, NEW t \in Tables, NEW term \in Terms, SearchKeyUp(t, term)
  PROVE  PageIInv'
<1> DEFINE use == [by |-> "search", what |-> term]
<1>1. ThemePart /\ TablePart /\ CounterPart /\ CopyPart
  BY PageParts
<1>2. /\ t \in Here(Tables) /\ hidden' = (hidden \ RowsOf[t]) \cup NotMatching(t, term)
      /\ decider' = [decider EXCEPT ![t] = use]
      /\ UNCHANGED <<page, loaded, theme, icon, stored, osTheme, otherTab, counter, copy>>
  BY DEF SearchKeyUp
<1>3. NotMatching(t, term) \subseteq RowsOf[t] /\ RowsOf[t] \subseteq RowsHere /\ RowsHere' = RowsHere
      /\ Here(Tables)' = Here(Tables)
  BY <1>2 DEF NotMatching, RowsHere, Here
<1>4. decider' \in [Tables -> [by : {Nothing, "search", "status"},
                               what : Terms \cup Statuses \cup {AllStatuses, Nothing}]]
  BY <1>1, <1>2 DEF TablePart
<1>5. decider'[t] = use /\ \A u \in Tables \ {t} : decider'[u] = decider[u]
  BY <1>1, <1>2 DEF TablePart
<1>6. hidden' \cap RowsOf[t] = NotMatching(t, term)
  BY <1>2, <1>3
<1>7. \A u \in Tables \ {t} : hidden' \cap RowsOf[u] = hidden \cap RowsOf[u]
  BY <1>2, <1>3, RowsAssumption
<1>8. OneControlDecides'
  <2> SUFFICES ASSUME NEW u \in Here(Tables)
               PROVE  (hidden \cap RowsOf[u] =
                         CASE decider[u].by = "search" -> NotMatching(u, decider[u].what)
                           [] decider[u].by = "status" -> OtherStatus(u, decider[u].what)
                           [] OTHER -> {})'
    BY <1>3 DEF OneControlDecides
  <2>1. CASE u = t
    BY <1>5, <1>6, <2>1 DEF NotMatching
  <2>2. CASE u # t
    <3>1. hidden' \cap RowsOf[u] = hidden \cap RowsOf[u] /\ decider'[u] = decider[u]
      BY <1>5, <1>7, <2>2 DEF Here
    <3> QED BY <1>1, <3>1 DEF TablePart, OneControlDecides, NotMatching, OtherStatus
  <2> QED BY <2>1, <2>2
<1>9. TablePart'
  BY <1>1, <1>2, <1>3, <1>4, <1>8 DEF TablePart
<1> QED BY <1>1, <1>2, <1>9, PartsKept, PageParts

LEMMA StatusClickInv ==
  ASSUME PageIInv, NEW s \in Statuses \cup {AllStatuses}, StatusClick(s)
  PROVE  PageIInv'
<1>1. ThemePart /\ TablePart /\ CounterPart /\ CopyPart
  BY PageParts
<1>2. /\ hidden' = UNION {OtherStatus(t, s) : t \in Here(Tables)}
      /\ decider' = [t \in Tables |-> IF t \in Here(Tables) THEN [by |-> "status", what |-> s]
                                                            ELSE decider[t]]
      /\ UNCHANGED <<page, loaded, theme, icon, stored, osTheme, otherTab, counter, copy>>
  BY DEF StatusClick
<1>3. \A t : OtherStatus(t, s) \subseteq RowsOf[t]
  BY DEF OtherStatus
<1>4. /\ Here(Tables) \subseteq Tables /\ Here(Tables)' = Here(Tables) /\ RowsHere' = RowsHere
      /\ hidden' \subseteq RowsHere
  BY <1>2, <1>3 DEF RowsHere, Here
<1>5. decider' \in [Tables -> [by : {Nothing, "search", "status"},
                               what : Terms \cup Statuses \cup {AllStatuses, Nothing}]]
  BY <1>1, <1>2 DEF TablePart
<1>6. OneControlDecides'
  <2> SUFFICES ASSUME NEW t \in Here(Tables)
               PROVE  (hidden \cap RowsOf[t] =
                         CASE decider[t].by = "search" -> NotMatching(t, decider[t].what)
                           [] decider[t].by = "status" -> OtherStatus(t, decider[t].what)
                           [] OTHER -> {})'
    BY <1>4 DEF OneControlDecides
  <2>1. decider'[t] = [by |-> "status", what |-> s]
    BY <1>2, <1>4
  <2>2. hidden' \cap RowsOf[t] = OtherStatus(t, s)
    BY <1>2, <1>3, <1>4, RowsAssumption
  <2> QED BY <2>1, <2>2 DEF OtherStatus
<1>7. TablePart'
  BY <1>4, <1>5, <1>6 DEF TablePart
<1> QED BY <1>1, <1>2, <1>7, PartsKept, PageParts

LEMMA AnimationFrameInv ==
  ASSUME PageIInv, NEW c \in Counters, AnimationFrame(c)
  PROVE  PageIInv'
<1>1. ThemePart /\ TablePart /\ CounterPart /\ CopyPart
  BY PageParts
<1>2. /\ counter[c].queued
      /\ UNCHANGED <<page, loaded, theme, icon, stored, osTheme, otherTab, hidden, decider, copy>>
  BY DEF AnimationFrame
<1>3. PICK tick \in counter[c].tick + 1 .. LastTick :
         counter' = [counter EXCEPT ![c] = [text |-> CounterText(c, tick),
                                            queued |-> tick < Duration, tick |-> tick]]
  BY DEF AnimationFrame
<1>4. counter[c] \in CounterType /\ Target[c] > 0 /\ Target[c] \in Int /\ loaded
  BY <1>1, <1>2, Bounds DEF CounterPart, CounterOK, IdleCounter
<1>5. tick \in -1 .. LastTick /\ tick \in Int
  BY <1>3, <1>4, Bounds DEF CounterType
<1>6. /\ CounterText(c, tick) \in Int /\ CounterText(c, tick) \in -Target[c] .. Target[c]
      /\ tick >= Duration => CounterText(c, tick) = Target[c]
  BY <1>4, <1>5, TextOfCounter
<1>7. counter'[c] = [text |-> CounterText(c, tick), queued |-> tick < Duration, tick |-> tick]
  BY <1>1, <1>3 DEF CounterPart
<1>8. counter'[c] \in CounterType /\ CounterOK(c)'
  <2> DEFINE text == CounterText(c, tick)
             queued == tick < Duration
  <2>1. /\ text \in Int /\ queued \in BOOLEAN /\ tick \in -2 .. LastTick
        /\ queued => text \in -Target[c] .. Target[c]
        /\ ~queued => text = Target[c]
    BY <1>5, <1>6, Bounds
  <2>2. counter'[c].queued = queued /\ counter'[c].text = text /\ counter'[c].tick = tick
    BY <1>7
  <2>3. counter'[c] = [text |-> text, queued |-> queued, tick |-> tick] /\ (queued => tick < Duration)
    BY <1>7
  <2> HIDE DEF text, queued
  <2>4. counter'[c] \in CounterType
    BY <2>1, <2>3 DEF CounterType
  <2> QED BY <1>2, <1>4, <2>1, <2>2, <2>3, <2>4 DEF CounterOK
<1>9. CounterPart'
  <2>1. \A d \in Counters \ {c} : counter'[d] = counter[d]
    BY <1>3
  <2>2. \A d \in Counters \ {c} : counter'[d] \in CounterType /\ CounterOK(d)'
    BY <1>1, <1>2, <2>1 DEF CounterPart, CounterOK, IdleCounter
  <2>3. \A d \in Counters : counter'[d] \in CounterType /\ CounterOK(d)'
    BY <1>8, <2>2
  <2>4. counter' = [d \in Counters |-> counter'[d]]
    BY <1>1, <1>3 DEF CounterPart
  <2> QED BY <2>3, <2>4 DEF CounterPart
<1> QED BY <1>1, <1>2, <1>9, PartsKept, PageParts

(* A button alone changes, to what it may be.                               *)
LEMMA OneButton ==
  ASSUME PageIInv, NEW b \in CopyButtons,
         UNCHANGED <<page, loaded, theme, icon, stored, osTheme, otherTab, hidden, decider, counter>>,
         NEW x \in ButtonType, copy' = [copy EXCEPT ![b] = x],
         x.writing + Len(x.timers) <= MaxCopies,
         \/ x.overlapped
         \/ (x.caption = "original" /\ x.timers = <<>> /\ ~x.success)
         \/ (x.caption = "copied" /\ x.timers = <<"original">> /\ x.success)
  PROVE  PageIInv'
<1>1. ThemePart /\ TablePart /\ CounterPart /\ CopyPart
  BY PageParts
<1>2. copy'[b] = x /\ \A a \in CopyButtons \ {b} : copy'[a] = copy[a]
  BY <1>1 DEF CopyPart
<1>3. \A a \in CopyButtons : CopyOK(a)'
  BY <1>1, <1>2 DEF CopyPart, CopyOK
<1>4. copy' \in [CopyButtons -> ButtonType]
  BY <1>1 DEF CopyPart
<1> QED BY <1>1, <1>3, <1>4, PartsKept, PageParts DEF CopyPart

LEMMA OneTimer ==
  /\ Append(<<>>, "original") = <<"original">>
  /\ Head(<<"original">>) = "original" /\ Tail(<<"original">>) = <<>>
OBVIOUS

LEMMA CopyInv ==
  ASSUME PageIInv, NEW b \in CopyButtons,
         CopyClick(b) \/ Copied(b) \/ CopyRefused(b) \/ RestoreCaption(b)
  PROVE  PageIInv'
<1> DEFINE y == copy[b]
<1>1. y \in ButtonType /\ CopyOK(b) /\ copy \in [CopyButtons -> ButtonType]
  BY PageParts DEF CopyPart
<1>2. UNCHANGED <<page, loaded, theme, icon, stored, osTheme, otherTab, hidden, decider, counter>>
  BY DEF CopyClick, Copied, CopyRefused, RestoreCaption
<1>3. /\ y.caption \in Captions /\ y.success \in BOOLEAN /\ y.timers \in Seq(Captions)
      /\ y.writing \in Nat /\ y.overlapped \in BOOLEAN /\ Len(y.timers) \in Nat
      /\ y = [caption |-> y.caption, success |-> y.success, timers |-> y.timers,
              writing |-> y.writing, overlapped |-> y.overlapped]
      /\ y.writing + Len(y.timers) <= MaxCopies /\ MaxCopies \in Nat
      /\ \/ y.overlapped
         \/ (y.caption = "original" /\ y.timers = <<>> /\ ~y.success)
         \/ (y.caption = "copied" /\ y.timers = <<"original">> /\ y.success)
  BY <1>1, Bounds DEF ButtonType, CopyOK
<1>4. CASE CopyClick(b) \/ CopyRefused(b)
  <2> DEFINE w == IF CopyClick(b) THEN y.writing + 1 ELSE y.writing - 1
             x == [y EXCEPT !.writing = w]
  <2>1. copy' = [copy EXCEPT ![b] = x]
    BY <1>1, <1>4 DEF CopyClick, CopyRefused
  <2>2. w \in Nat /\ w + Len(y.timers) <= MaxCopies
    BY <1>3, <1>4 DEF CopyClick, CopyRefused
  <2> HIDE DEF w
  <2>3. /\ x \in ButtonType /\ x.writing = w /\ x.timers = y.timers /\ x.caption = y.caption
        /\ x.success = y.success /\ x.overlapped = y.overlapped
    BY <1>1, <2>2 DEF ButtonType
  <2> HIDE DEF x, y
  <2> QED BY <1>2, <1>3, <2>1, <2>2, <2>3, OneButton
<1>5. CASE Copied(b)
  <2> DEFINE over == y.overlapped \/ y.caption = "copied"
             x == [caption |-> "copied", success |-> TRUE, timers |-> Append(y.timers, y.caption),
                   writing |-> y.writing - 1, overlapped |-> over]
  <2>1. y.writing > 0 /\ copy' = [copy EXCEPT ![b] = x]
    <3>1. copy'[b] = x
      BY <1>1, <1>3, <1>5 DEF Copied
    <3> QED BY <1>1, <1>5, <3>1 DEF Copied
  <2>2. /\ Append(y.timers, y.caption) \in Seq(Captions)
        /\ Len(Append(y.timers, y.caption)) = Len(y.timers) + 1
    BY <1>3
  <2>3. x \in ButtonType
    BY <1>3, <2>1, <2>2 DEF ButtonType, Captions
  <2>4. x.writing + Len(x.timers) <= MaxCopies
    BY <1>3, <2>1, <2>2
  <2>5. ~over => Append(y.timers, y.caption) = <<"original">>
    <3>1. ~over => y.timers = <<>> /\ y.caption = "original"
      BY <1>3
    <3> QED BY <3>1, OneTimer
  <2>6. x.overlapped \/ (x.caption = "copied" /\ x.timers = <<"original">> /\ x.success)
    BY <2>5
  <2> HIDE DEF x
  <2> QED BY <1>2, <2>1, <2>3, <2>4, <2>6, OneButton
<1>6. CASE RestoreCaption(b)
  <2> DEFINE x == [caption |-> Head(y.timers), success |-> FALSE, timers |-> Tail(y.timers),
                   writing |-> y.writing, overlapped |-> y.overlapped]
  <2>1. y.timers # <<>> /\ copy' = [copy EXCEPT ![b] = x]
    <3>1. copy'[b] = x
      BY <1>1, <1>3, <1>6 DEF RestoreCaption
    <3> QED BY <1>1, <1>6, <3>1 DEF RestoreCaption
  <2>2. /\ Head(y.timers) \in Captions /\ Tail(y.timers) \in Seq(Captions)
        /\ Len(Tail(y.timers)) = Len(y.timers) - 1
    BY <1>3, <2>1
  <2>3. x \in ButtonType
    BY <1>3, <2>2 DEF ButtonType
  <2>4. x.writing + Len(x.timers) <= MaxCopies
    BY <1>3, <2>2
  <2>5. ~y.overlapped => Head(y.timers) = "original" /\ Tail(y.timers) = <<>>
    <3>1. ~y.overlapped => y.timers = <<"original">>
      BY <1>3, <2>1
    <3> QED BY <3>1, OneTimer
  <2>6. x.overlapped \/ (x.caption = "original" /\ x.timers = <<>> /\ ~x.success)
    BY <2>5
  <2> HIDE DEF x
  <2> QED BY <1>2, <2>1, <2>3, <2>4, <2>6, OneButton
<1> QED BY <1>4, <1>5, <1>6

LEMMA PageNextInv ==
  ASSUME PageIInv, PageNext
  PROVE  PageIInv'
BY DOMContentLoadedInv, ThemeInv, SearchKeyUpInv, StatusClickInv, AnimationFrameInv, CopyInv
   DEF PageNext, Themes

-----------------------------------------------------------------------------
(* 4. Rules and checks *)

(* The rules an attribute becomes, adapter by adapter.                      *)
LEMMA AdaptedRules ==
  ASSUME NEW f, NEW a
  PROVE  LET p == Attributes[f][a]
         IN /\ a \in BoolAdapters => Adapted(f, a) = {a}
            /\ a = "length" => Adapted(f, a) = MinMaxRule(<<"minlength", "maxlength", "rangelength">>, p)
            /\ a = "range" => Adapted(f, a) = MinMaxRule(<<"min", "max", "range">>, p)
            /\ a = "minlength" => Adapted(f, a) = MinMaxRule(<<"minlength", "none", "none">>, p)
            /\ a = "maxlength" => Adapted(f, a) = MinMaxRule(<<"minlength", "maxlength", "none">>, p)
            /\ a = "regex" => Adapted(f, a) = {"regex"}
            /\ a = "extension" => Adapted(f, a) = {"accept"}
            /\ a = "fileextensions" => Adapted(f, a) = {"extension"}
            /\ a = "equalto" => Adapted(f, a) = {"equalTo"}
            /\ a = "required" => Adapted(f, a) = RequiredRule(f)
            /\ a = "password" => Adapted(f, a) = {PasswordRules[q] : q \in p \cap DOMAIN PasswordRules}
            /\ a \notin BoolAdapters \cup {"length", "range", "minlength", "maxlength", "regex",
                  "extension", "fileextensions", "equalto", "required", "password"} => Adapted(f, a) = {}
<1>1. /\ DOMAIN MinMaxAdapters = {"length", "range", "minlength", "maxlength"}
      /\ MinMaxAdapters["length"] = <<"minlength", "maxlength", "rangelength">>
      /\ MinMaxAdapters["range"] = <<"min", "max", "range">>
      /\ MinMaxAdapters["minlength"] = <<"minlength", "none", "none">>
      /\ MinMaxAdapters["maxlength"] = <<"minlength", "maxlength", "none">>
  BY DEF MinMaxAdapters
<1>2. /\ DOMAIN SingleValAdapters = {"regex", "extension", "fileextensions"}
      /\ SingleValAdapters["regex"] = "regex"
      /\ SingleValAdapters["extension"] = "accept"
      /\ SingleValAdapters["fileextensions"] = "extension"
  BY DEF SingleValAdapters
<1>3. BoolAdapters = {"creditcard", "date", "digits", "email", "number", "url"}
  BY DEF BoolAdapters
<1> QED BY <1>1, <1>2, <1>3 DEF Adapted

LEMMA RulesReject ==
  /\ Rejects("required") = {"absent"} /\ Rejects("nonalphamin") = {"absent", "short"}
  /\ Rejects("minlength") = {"short"} /\ Rejects("maxlength") = {"long"}
  /\ Rejects("rangelength") = {"short", "long"}
  /\ Rejects("min") = {"low", "malformed"} /\ Rejects("max") = {"high", "malformed"}
  /\ Rejects("range") = {"low", "high", "malformed"} /\ Rejects("step") = {"uneven", "malformed"}
  /\ Rejects("equalTo") = {} /\ Rejects("__dummy__") = {}
  /\ \A rule \in Formats : Rejects(rule) = {"malformed"}
BY DEF Rejects, Formats

LEMMA OnlyEqualTo ==
  ASSUME NEW f \in Fields
  PROVE  "equalTo" \in NativeRules(f) \cup StaticRules(f) <=> "equalto" \in DOMAIN Attributes[f]
<1>1. ASSUME NEW a \in DOMAIN Attributes[f], "equalTo" \in Adapted(f, a)
      PROVE  a = "equalto"
  BY <1>1, AdaptedRules DEF BoolAdapters, MinMaxRule, RequiredRule, PasswordRules
<1>2. "equalto" \in DOMAIN Attributes[f] => "equalTo" \in Adapted(f, "equalto")
  BY AdaptedRules
<1>3. "equalTo" \in ParsedRules(f) <=> "equalto" \in DOMAIN Attributes[f]
  BY <1>1, <1>2 DEF ParsedRules, ValidationValues
<1>4. "equalTo" \notin NativeRules(f)
  BY DEF NativeRules, AttributeRules, TypeRule, ClassRuleSettings, HtmlRules
<1>5. f \notin DataVal => DOMAIN Attributes[f] = {}
  BY AttributesAssumption
<1> QED BY <1>3, <1>4, <1>5 DEF StaticRules

(* What an attribute rejects.                                               *)
RejectedFor(f, a, v) == \E rule \in Adapted(f, a) : v \in Rejects(rule)

LEMMA LengthsReject ==
  ASSUME NEW f \in Fields, NEW a \in DOMAIN Attributes[f], NEW v
  PROVE  LET p == Attributes[f][a]
         IN /\ a = "length" => (RejectedFor(f, a, v) <=> \/ (v = "short" /\ "min" \in p)
                                                         \/ (v = "long" /\ "max" \in p))
            /\ a = "range" => (RejectedFor(f, a, v) <=> v \in {"low", "high", "malformed"})
            /\ a = "minlength" => (RejectedFor(f, a, v) <=> v = "short" /\ "min" \in p)
            /\ a = "maxlength" => (RejectedFor(f, a, v) <=> v = "long" /\ "max" \in p)
<1> DEFINE p == Attributes[f][a]
<1>1. \A x, y, z : MinMaxRule(<<x, y, z>>, p) =
         IF "min" \in p THEN IF "max" \in p THEN {z} ELSE {x}
         ELSE IF "max" \in p THEN {y} ELSE {}
  <2> TAKE x, y, z
  <2>1. <<x, y, z>>[1] = x /\ <<x, y, z>>[2] = y /\ <<x, y, z>>[3] = z
    OBVIOUS
  <2> QED BY <2>1 DEF MinMaxRule
<1> HIDE DEF p
<1>2. a = "length" => (RejectedFor(f, a, v) <=> \/ (v = "short" /\ "min" \in p)
                                                \/ (v = "long" /\ "max" \in p))
  <2> SUFFICES ASSUME a = "length"
               PROVE  RejectedFor(f, a, v) <=> \/ (v = "short" /\ "min" \in p)
                                               \/ (v = "long" /\ "max" \in p)
    OBVIOUS
  <2>1. Adapted(f, a) = IF "min" \in p THEN IF "max" \in p THEN {"rangelength"} ELSE {"minlength"}
                        ELSE IF "max" \in p THEN {"maxlength"} ELSE {}
    <3>1. Adapted(f, a) = MinMaxRule(<<"minlength", "maxlength", "rangelength">>, p)
      BY AdaptedRules DEF p
    <3> QED BY <1>1, <3>1
  <2> QED BY <2>1, RulesReject DEF RejectedFor
<1>3. a = "range" => (RejectedFor(f, a, v) <=> v \in {"low", "high", "malformed"})
  <2> SUFFICES ASSUME a = "range"
               PROVE  RejectedFor(f, a, v) <=> v \in {"low", "high", "malformed"}
    OBVIOUS
  <2>1. Adapted(f, a) = {"range"}
    <3>1. Adapted(f, a) = MinMaxRule(<<"min", "max", "range">>, p)
      BY AdaptedRules DEF p
    <3>2. p = {"min", "max"}
      BY AttributesAssumption DEF p
    <3> QED BY <1>1, <3>1, <3>2
  <2> QED BY <2>1, RulesReject DEF RejectedFor
<1>4. a = "minlength" => (RejectedFor(f, a, v) <=> v = "short" /\ "min" \in p)
  <2> SUFFICES ASSUME a = "minlength"
               PROVE  RejectedFor(f, a, v) <=> v = "short" /\ "min" \in p
    OBVIOUS
  <2>1. Adapted(f, a) = IF "min" \in p THEN {"minlength"} ELSE {}
    <3>1. Adapted(f, a) = MinMaxRule(<<"minlength", "none", "none">>, p)
      BY AdaptedRules DEF p
    <3> QED BY <1>1, <3>1, AttributesAssumption DEF p
  <2> QED BY <2>1, RulesReject DEF RejectedFor
<1>5. a = "maxlength" => (RejectedFor(f, a, v) <=> v = "long" /\ "max" \in p)
  <2> SUFFICES ASSUME a = "maxlength"
               PROVE  RejectedFor(f, a, v) <=> v = "long" /\ "max" \in p
    OBVIOUS
  <2>1. Adapted(f, a) = IF "max" \in p THEN {"maxlength"} ELSE {}
    <3>1. Adapted(f, a) = MinMaxRule(<<"minlength", "maxlength", "none">>, p)
      BY AdaptedRules DEF p
    <3> QED BY <1>1, <3>1, AttributesAssumption DEF p
  <2> QED BY <2>1, RulesReject DEF RejectedFor
<1> QED BY <1>2, <1>3, <1>4, <1>5 DEF p

Formatted == (BoolAdapters \ {"creditcard"}) \cup {"regex"}

LEMMA OthersReject ==
  ASSUME NEW f \in Fields, NEW a \in DOMAIN Attributes[f], NEW v
  PROVE  LET p == Attributes[f][a]
         IN /\ a \in Formatted => (RejectedFor(f, a, v) <=> v = "malformed")
            /\ a = "required" => (RejectedFor(f, a, v) <=> v = "absent" /\ f \notin Checkboxes)
            /\ a = "password" =>
                  (RejectedFor(f, a, v) <=> \/ (v = "short" /\ "min" \in p)
                                            \/ (v \in {"absent", "short"} /\ "nonalphamin" \in p)
                                            \/ (v = "malformed" /\ "regex" \in p))
            /\ a \notin Formatted \cup {"required", "password", "length", "range", "minlength",
                  "maxlength"} => ~RejectedFor(f, a, v)
<1> DEFINE p == Attributes[f][a]
<1>1. a \in Formatted => (RejectedFor(f, a, v) <=> v = "malformed")
  <2>1. ASSUME a \in Formatted
        PROVE  Adapted(f, a) = {a} /\ a \in Formats
    BY <2>1, AdaptedRules DEF Formatted, BoolAdapters, Formats
  <2> QED BY <2>1, RulesReject DEF RejectedFor
<1>2. a = "required" => (RejectedFor(f, a, v) <=> v = "absent" /\ f \notin Checkboxes)
  BY AdaptedRules, RulesReject DEF RejectedFor, RequiredRule
<1>3. a = "password" =>
         (RejectedFor(f, a, v) <=> \/ (v = "short" /\ "min" \in p)
                                   \/ (v \in {"absent", "short"} /\ "nonalphamin" \in p)
                                   \/ (v = "malformed" /\ "regex" \in p))
  <2> SUFFICES ASSUME a = "password"
               PROVE  RejectedFor(f, a, v) <=> \/ (v = "short" /\ "min" \in p)
                                               \/ (v \in {"absent", "short"} /\ "nonalphamin" \in p)
                                               \/ (v = "malformed" /\ "regex" \in p)
    OBVIOUS
  <2>1. /\ DOMAIN PasswordRules = {"min", "nonalphamin", "regex"}
        /\ PasswordRules["min"] = "minlength" /\ PasswordRules["nonalphamin"] = "nonalphamin"
        /\ PasswordRules["regex"] = "regex"
    BY DEF PasswordRules
  <2>2. Adapted(f, a) = {PasswordRules[q] : q \in p \cap {"min", "nonalphamin", "regex"}}
    BY <2>1, AdaptedRules
  <2>3. RejectedFor(f, a, v) <=>
           \E q \in p \cap {"min", "nonalphamin", "regex"} : v \in Rejects(PasswordRules[q])
    BY <2>2 DEF RejectedFor
  <2>4. Rejects("regex") = {"malformed"}
    BY RulesReject DEF Formats
  <2> HIDE DEF p
  <2> QED BY <2>1, <2>3, <2>4, RulesReject
<1>4. a \notin Formatted \cup {"required", "password", "length", "range", "minlength", "maxlength"}
         => ~RejectedFor(f, a, v)
  <2>1. a \notin {"extension", "fileextensions", "creditcard"}
    BY AttributesAssumption
  <2> QED BY <2>1, AdaptedRules, RulesReject DEF RejectedFor, Formatted
<1> QED BY <1>1, <1>2, <1>3, <1>4

(* What the element's own classes, attributes and type exclude.             *)
OwnDemand(f, v) ==
  LET marked == Markup[f].attributes
      classes == Markup[f].classes
  IN \/ v = "absent" /\ "required" \in marked \cup classes
     \/ v = "short" /\ "minlength" \in marked
     \/ v = "long" /\ "maxlength" \in marked
     \/ v = "low" /\ "min" \in marked
     \/ v = "high" /\ "max" \in marked
     \/ v = "uneven" /\ "step" \in marked
     \/ v = "malformed" /\ \/ marked \cap {"min", "max", "step"} # {}
                           \/ Markup[f].type \in {"date", "email", "number", "url"}
                           \/ classes \cap {"date", "dateISO", "digits", "email", "number", "url"} # {}

LEMMA NativeRulesReject ==
  ASSUME NEW f \in Fields, NEW v
  PROVE  (\E rule \in NativeRules(f) : v \in Rejects(rule)) <=> OwnDemand(f, v)
<1> DEFINE marked == Markup[f].attributes
           classes == Markup[f].classes
           type == Markup[f].type
           Words == {"date", "dateISO", "digits", "email", "number", "url"}
<1>1. \A rule : rule \in NativeRules(f)
         <=> \/ rule \in classes /\ rule \in Words \cup {"required"}
             \/ rule \in marked /\ rule \in {"required", "min", "max", "step", "minlength", "maxlength"}
             \/ type = "date" /\ rule = "dateISO"
             \/ type # "date" /\ type = rule /\ rule \in {"email", "number", "url"}
  <2>1. "creditcard" \notin classes
    BY AttributesAssumption
  <2> HIDE DEF marked, classes, type
  <2> QED BY <2>1 DEF NativeRules, AttributeRules, TypeRule, ClassRuleSettings, HtmlRules,
                      marked, classes, type
<1>2. \A rule \in Words : Rejects(rule) = {"malformed"}
  BY RulesReject DEF Formats
<1> HIDE DEF marked, classes, type
<1>3. ASSUME NEW rule \in NativeRules(f), v \in Rejects(rule)
      PROVE  OwnDemand(f, v)
  <2>1. CASE rule \in classes /\ rule \in Words \cup {"required"}
    BY <1>2, <1>3, <2>1, RulesReject DEF OwnDemand, classes
  <2>2. CASE rule \in marked /\ rule \in {"required", "min", "max", "step", "minlength", "maxlength"}
    BY <1>3, <2>2, RulesReject DEF OwnDemand, marked
  <2>3. CASE type = "date" /\ rule = "dateISO"
    BY <1>2, <1>3, <2>3 DEF OwnDemand, type
  <2>4. CASE type = rule /\ rule \in {"email", "number", "url"}
    BY <1>2, <1>3, <2>4 DEF OwnDemand, type
  <2> QED BY <1>1, <1>3, <2>1, <2>2, <2>3, <2>4
<1>4. ASSUME OwnDemand(f, v)
      PROVE  \E rule \in NativeRules(f) : v \in Rejects(rule)
  <2>1. ASSUME NEW rule \in {"required", "min", "max", "step", "minlength", "maxlength"},
               rule \in marked, v \in Rejects(rule)
        PROVE  \E r \in NativeRules(f) : v \in Rejects(r)
    BY <1>1, <2>1
  <2>2. CASE v = "absent" /\ "required" \in classes
    BY <1>1, <2>2, RulesReject
  <2>3. CASE v = "malformed" /\ classes \cap Words # {}
    BY <1>1, <1>2, <2>3
  <2>4. CASE v = "malformed" /\ type = "date"
    BY <1>1, <1>2, <2>4
  <2>5. CASE v = "malformed" /\ type \in {"email", "number", "url"}
    BY <1>1, <1>2, <2>5
  <2>6. CASE \/ v = "absent" /\ "required" \in marked
             \/ v = "short" /\ "minlength" \in marked
             \/ v = "long" /\ "maxlength" \in marked
             \/ v = "low" /\ "min" \in marked
             \/ v = "high" /\ "max" \in marked
             \/ v = "uneven" /\ "step" \in marked
             \/ v = "malformed" /\ marked \cap {"min", "max", "step"} # {}
    BY <2>1, <2>6, RulesReject
  <2> QED BY <1>4, <2>2, <2>3, <2>4, <2>5, <2>6 DEF OwnDemand, marked, classes, type
<1> QED BY <1>3, <1>4

(* The rules do what the element says: some rule of a field rejects a value *)
(* if and only if the value has a flaw that its data-val-*, its HTML        *)
(* attributes, its type or its classes exclude.                             *)
LEMMA RulesAreDemands ==
  ASSUME NEW f \in Fields, NEW v \in Values
  PROVE  (\E rule \in NativeRules(f) \cup StaticRules(f) : v \in Rejects(rule)) <=> v \in Demanded(f)
<1> DEFINE asked == DOMAIN Attributes[f]
<1>1. (\E rule \in StaticRules(f) : v \in Rejects(rule)) <=> \E a \in asked : RejectedFor(f, a, v)
  <2>1. \A rule : rule \in ParsedRules(f)
                     <=> rule = "__dummy__" \/ \E a \in asked : rule \in Adapted(f, a)
    BY DEF ParsedRules, ValidationValues
  <2>2. v \notin Rejects("__dummy__")
    BY RulesReject
  <2>3. f \notin DataVal => asked = {}
    BY AttributesAssumption
  <2> HIDE DEF asked
  <2> QED BY <2>1, <2>2, <2>3 DEF RejectedFor, StaticRules
<1>2. ASSUME NEW a \in asked, RejectedFor(f, a, v)
      PROVE  v \in Demanded(f)
  <2>1. a \in Formatted \cup {"required", "password", "length", "range", "minlength", "maxlength"}
    BY <1>2, OthersReject
  <2>2. CASE a \in Formatted
    BY <1>2, <2>2, OthersReject DEF Demanded, Flaws, Formatted
  <2>3. CASE a = "required"
    BY <1>2, <2>3, OthersReject DEF Demanded, Flaws
  <2>4. CASE a = "password"
    BY <1>2, <2>4, OthersReject DEF Demanded, Flaws
  <2>5. CASE a \in {"length", "range", "minlength", "maxlength"}
    BY <1>2, <2>5, LengthsReject DEF Demanded, Flaws
  <2> QED BY <2>1, <2>2, <2>3, <2>4, <2>5
<1>3. OwnDemand(f, v) => v \in Demanded(f)
  BY DEF OwnDemand, Demanded, Flaws
<1>4. ASSUME v \in Demanded(f), ~OwnDemand(f, v)
      PROVE  \E a \in asked : RejectedFor(f, a, v)
  <2>1. CASE v = "absent" /\ "required" \in asked /\ f \notin Checkboxes
    BY <2>1, OthersReject
  <2>2. CASE /\ "password" \in asked
             /\ \/ v \in {"absent", "short"} /\ "nonalphamin" \in Attributes[f]["password"]
                \/ v = "short" /\ "min" \in Attributes[f]["password"]
                \/ v = "malformed" /\ "regex" \in Attributes[f]["password"]
    BY <2>2, OthersReject
  <2>3. CASE v = "short" /\ \E a \in asked \cap {"length", "minlength"} : "min" \in Attributes[f][a]
    BY <2>3, LengthsReject
  <2>4. CASE v = "long" /\ \E a \in asked \cap {"length", "maxlength"} : "max" \in Attributes[f][a]
    BY <2>4, LengthsReject
  <2>5. CASE "range" \in asked /\ v \in {"low", "high", "malformed"}
    BY <2>5, LengthsReject
  <2>6. CASE v = "malformed" /\ asked \cap (BoolAdapters \cup {"regex"}) # {}
    <3>1. "creditcard" \notin asked
      BY AttributesAssumption
    <3> QED BY <2>6, <3>1, OthersReject DEF Formatted
  <2> QED BY <1>4, <2>1, <2>2, <2>3, <2>4, <2>5, <2>6 DEF Demanded, OwnDemand
<1>5. (\E rule \in NativeRules(f) : v \in Rejects(rule)) <=> OwnDemand(f, v)
  BY NativeRulesReject
<1> QED BY <1>1, <1>2, <1>3, <1>4, <1>5

LEMMA RejectsFlaws == \A rule : Rejects(rule) \subseteq Flaws
BY DEF Rejects, Flaws

LEMMA FineIsNoFlaw ==
  /\ "fine" \notin Flaws /\ "never" \notin Flaws /\ "server" \notin Flaws /\ "different" \in Flaws
  /\ Flaws \subseteq Values /\ "fine" \in Values
BY DEF Flaws, Values

(* With a validator, a field has its own rules and those parsed from its    *)
(* data-val-*; if it has any and a message element, "__dummy__" is one.     *)
LEMMA RulesOfFields ==
  ASSUME FormIInv, NEW f \in Fields, validator[FormOf[f]].attached
  PROVE  /\ FormOf[f] \in Forms
         /\ RulesOf(f) = NativeRules(f) \cup StaticRules(f)
         /\ f \in WithSpan /\ RulesOf(f) # {} => "__dummy__" \in RulesOf(f)
<1>1. FormOf[f] \in Forms
  BY FormsAssumption
<1>2. RulesAreParsed(FormOf[f]) /\ validator[FormOf[f]] # NotAttached
  BY <1>1 DEF FormIInv, NotAttached
<1>3. RulesOf(f) = NativeRules(f) \cup StaticRules(f)
  BY <1>1, <1>2 DEF RulesAreParsed, RulesOf
<1>4. f \in WithSpan => f \in DataVal \/ NativeRules(f) = {}
  BY MessagesAssumption
<1>5. "__dummy__" \in ParsedRules(f)
  BY DEF ParsedRules, ValidationValues
<1> QED BY <1>1, <1>3, <1>4, <1>5 DEF StaticRules

SpanType == [class : {"valid", "error"}, text : Values \cup {"server"}]
SummaryType == [class : {"valid", "error"},
                items : SUBSET ((Fields \cup Forms) \X (Flaws \cup {"server"}))]

LEMMA WhatIsShown ==
  ASSUME FormIInv, NEW f \in Fields, f \in Watched(FormOf[f])
  PROVE  /\ Rejected(f) => Message(f) \in Flaws
         /\ f \in WithSpan =>
              Shown(f) = IF Rejected(f) THEN [class |-> "error", text |-> Message(f)]
                         ELSE [class |-> "valid", text |-> "fine"]
<1>1. f \in WithSpan => ~Undecided(f)
  BY RulesOfFields DEF Undecided, Watched
<1>2. Rejected(f) => Message(f) \in Flaws
  BY RejectsFlaws, FineIsNoFlaw DEF Rejected, Message, Flawed
<1> QED BY <1>1, <1>2 DEF Shown

(* What a check of some fields leaves.                                      *)
LEMMA CheckKeeps ==
  ASSUME FormIInv, NEW fields \in SUBSET (Fields \ Ignored), \A f \in fields : f \in Watched(FormOf[f]),
         Check(fields)
  PROVE  /\ span' \in [Fields -> SpanType] /\ checked' \in [Fields -> Values \cup {"never", "server"}]
         /\ submitted' \subseteq Fields \ Ignored
         /\ MessageFollowsCheck'
<1>1. /\ span' = [f \in Fields |-> IF f \in fields THEN Shown(f) ELSE span[f]]
      /\ checked' = [f \in Fields |-> IF f \notin fields \cap WithSpan THEN checked[f]
                                      ELSE IF Rejected(f) THEN Message(f) ELSE "fine"]
      /\ submitted' = submitted \cup {f \in fields : Rejected(f)}
  BY DEF Check
<1>2. /\ span \in [Fields -> SpanType] /\ checked \in [Fields -> Values \cup {"never", "server"}]
      /\ submitted \subseteq Fields \ Ignored /\ MessageFollowsCheck
  BY DEF FormIInv, FormTypeOK, SpanType
<1>3. ASSUME NEW f \in Fields
      PROVE  /\ span'[f] \in SpanType /\ checked'[f] \in Values \cup {"never", "server"}
             /\ f \in WithSpan =>
                  /\ span'[f].class = "error" <=> checked'[f] \notin {"never", "fine"}
                  /\ span'[f].class = "error" => span'[f].text = checked'[f]
                  /\ checked'[f] = "fine" => span'[f].text = "fine"
  <2>1. CASE f \in fields /\ f \in WithSpan
    <3>1. Rejected(f) => Message(f) \in Flaws
      BY <2>1, WhatIsShown
    <3>2. span'[f] = IF Rejected(f) THEN [class |-> "error", text |-> Message(f)]
                     ELSE [class |-> "valid", text |-> "fine"]
      BY <1>1, <2>1, WhatIsShown
    <3>3. checked'[f] = IF Rejected(f) THEN Message(f) ELSE "fine"
      BY <1>1, <2>1
    <3> QED BY <3>1, <3>2, <3>3, FineIsNoFlaw DEF SpanType
  <2>2. CASE ~(f \in fields /\ f \in WithSpan)
    <3>1. span'[f] = span[f] /\ checked'[f] = checked[f]
      BY <1>1, <2>2 DEF Shown
    <3> QED BY <1>2, <3>1 DEF MessageFollowsCheck
  <2> QED BY <2>1, <2>2
<1>4. span' \in [Fields -> SpanType] /\ checked' \in [Fields -> Values \cup {"never", "server"}]
  BY <1>1, <1>3
<1>5. MessageFollowsCheck'
  BY <1>3, FormsAssumption DEF MessageFollowsCheck
<1> QED BY <1>1, <1>2, <1>4, <1>5

-----------------------------------------------------------------------------
(* 5. The steps of the forms *)

(* For a step that leaves validators and summaries as they are.             *)
LEMMA FormStep ==
  ASSUME FormIInv, UNCHANGED <<validator, rendered, summary>>,
         posted' \in [Forms -> {"no", "checked", "unchecked"}], value' \in [Fields -> Values],
         submitted' \subseteq Fields \ Ignored, invalid' \subseteq Fields \ Ignored,
         span' \in [Fields -> SpanType], checked' \in [Fields -> Values \cup {"never", "server"}],
         MessageFollowsCheck'
  PROVE  FormIInv'
BY DEF FormIInv, FormTypeOK, RulesAreParsed, SpanType

LEMMA FormParts ==
  ASSUME FormIInv
  PROVE  /\ posted \in [Forms -> {"no", "checked", "unchecked"}]
         /\ value \in [Fields -> Values] /\ rendered \in [Fields -> Values]
         /\ submitted \subseteq Fields \ Ignored /\ invalid \subseteq Fields \ Ignored
         /\ span \in [Fields -> SpanType] /\ checked \in [Fields -> Values \cup {"never", "server"}]
         /\ summary \in [Forms -> SummaryType] /\ MessageFollowsCheck
         /\ \A g \in Forms : \A item \in summary[g].items : item[1] \in FieldsOf(g) \cup {g}
         /\ UNCHANGED <<span, checked>> => MessageFollowsCheck'
BY DEF FormIInv, FormTypeOK, SpanType, SummaryType, MessageFollowsCheck

LEMMA EntryInv ==
  ASSUME FormIInv, NEW f \in Fields, NEW v \in Values, KeyUp(f, v) \/ Fill(f, v)
  PROVE  FormIInv'
<1>1. /\ f \notin Ignored /\ value' = [value EXCEPT ![f] = v]
      /\ UNCHANGED <<validator, rendered, summary, posted>>
      /\ Unchecked \/ (f \in Watched(FormOf[f]) /\ CheckOne(f))
  BY DEF KeyUp, Fill
<1>2. value' \in [Fields -> Values]
  BY <1>1, FormParts
<1>3. CASE Unchecked
  BY <1>1, <1>2, <1>3, FormParts, FormStep DEF Unchecked
<1>4. CASE f \in Watched(FormOf[f]) /\ CheckOne(f)
  <2>1. {f} \in SUBSET (Fields \ Ignored) /\ (\A g \in {f} : g \in Watched(FormOf[g])) /\ Check({f})
        /\ invalid' = invalid \cup {f}
    BY <1>1, <1>4 DEF Watched, CheckOne
  <2>2. /\ span' \in [Fields -> SpanType] /\ checked' \in [Fields -> Values \cup {"never", "server"}]
        /\ submitted' \subseteq Fields \ Ignored /\ MessageFollowsCheck'
    BY <2>1, CheckKeeps
  <2> QED BY <1>1, <1>2, <2>1, <2>2, FormParts, FormStep
<1> QED BY <1>1, <1>3, <1>4

LEMMA FocusOutInv ==
  ASSUME FormIInv, NEW f \in Fields, FocusOut(f)
  PROVE  FormIInv'
<1>1. /\ {f} \in SUBSET (Fields \ Ignored) /\ (\A g \in {f} : g \in Watched(FormOf[g])) /\ Check({f})
      /\ invalid' = invalid \cup {f} /\ UNCHANGED <<value, validator, rendered, summary, posted>>
  BY DEF FocusOut, Watched, CheckOne
<1>2. /\ span' \in [Fields -> SpanType] /\ checked' \in [Fields -> Values \cup {"never", "server"}]
      /\ submitted' \subseteq Fields \ Ignored /\ MessageFollowsCheck'
  BY <1>1, CheckKeeps
<1> QED BY <1>1, <1>2, FormParts, FormStep

LEMMA SubmitUncheckedInv ==
  ASSUME FormIInv, NEW form \in Forms, SubmitUnchecked(form)
  PROVE  FormIInv'
<1>1. /\ posted' \in [Forms -> {"no", "checked", "unchecked"}]
      /\ UNCHANGED <<validator, value, rendered, submitted, invalid, span, summary, checked>>
  BY FormParts DEF SubmitUnchecked, Send
<1> QED BY <1>1, FormParts, FormStep

LEMMA SubmitCheckedInv ==
  ASSUME FormIInv, NEW form \in Forms, SubmitChecked(form)
  PROVE  FormIInv'
<1>1. /\ Check(Watched(form)) /\ UNCHANGED <<value, rendered, validator>>
      /\ invalid' = (invalid \ FieldsOf(form)) \cup RefusedFields(form)
      /\ summary' = Listed(form, RefusedFields(form))
      /\ posted' = [posted EXCEPT ![form] = "checked"] \/ posted' = posted
  BY DEF SubmitChecked, Send
<1>2. /\ Watched(form) \in SUBSET (Fields \ Ignored) /\ Watched(form) \subseteq FieldsOf(form)
      /\ RefusedFields(form) \subseteq Watched(form)
      /\ \A f \in Watched(form) : f \in Watched(FormOf[f])
  BY DEF Watched, RefusedFields, FieldsOf
<1>3. /\ span' \in [Fields -> SpanType] /\ checked' \in [Fields -> Values \cup {"never", "server"}]
      /\ submitted' \subseteq Fields \ Ignored /\ MessageFollowsCheck'
  BY <1>1, <1>2, CheckKeeps
<1>4. /\ posted' \in [Forms -> {"no", "checked", "unchecked"}] /\ value' \in [Fields -> Values]
      /\ invalid' \subseteq Fields \ Ignored
  BY <1>1, <1>2, FormParts
<1>5. \A f \in RefusedFields(form) : Message(f) \in Flaws
  BY <1>2, WhatIsShown DEF RefusedFields
<1> DEFINE items == {<<f, Message(f)>> : f \in RefusedFields(form)}
           new == [class |-> "error", items |-> items]
<1>6. new \in SummaryType /\ \A item \in items : item[1] \in FieldsOf(form)
  BY <1>2, <1>5 DEF SummaryType
<1>7. /\ summary \in [Forms -> SummaryType]
      /\ \A g \in Forms : \A item \in summary[g].items : item[1] \in FieldsOf(g) \cup {g}
  BY FormParts
<1>8. summary' = [summary EXCEPT ![form] = new] \/ summary' = summary
  BY <1>1 DEF Listed
<1>9. new.items = items
  OBVIOUS
<1> HIDE DEF new, items
<1>10. /\ summary' \in [Forms -> SummaryType]
       /\ \A g \in Forms : \A item \in summary'[g].items : item[1] \in FieldsOf(g) \cup {g}
  BY <1>6, <1>7, <1>8, <1>9
<1>11. FormTypeOK'
  BY <1>1, <1>3, <1>4, <1>10 DEF FormIInv, FormTypeOK, SpanType, SummaryType
<1> QED BY <1>1, <1>3, <1>10, <1>11 DEF FormIInv, RulesAreParsed

LEMMA ResetInv ==
  ASSUME FormIInv, NEW form \in Forms, Reset(form)
  PROVE  FormIInv'
<1>1. /\ value' = [f \in Fields |-> IF FormOf[f] = form THEN rendered[f] ELSE value[f]]
      /\ UNCHANGED <<validator, rendered, posted>>
      /\ Forget(form) \/ (Unchecked /\ UNCHANGED summary)
  BY DEF Reset
<1>2. value' \in [Fields -> Values]
  BY <1>1, FormParts
<1>3. CASE Unchecked /\ UNCHANGED summary
  BY <1>1, <1>2, <1>3, FormParts, FormStep DEF Unchecked
<1>4. CASE Forget(form)
  <2>1. /\ submitted' = submitted \ FieldsOf(form) /\ invalid' = invalid \ FieldsOf(form)
        /\ summary' = [summary EXCEPT ![form].class = "valid"]
        /\ span' = [f \in Fields |-> IF FormOf[f] = form THEN [span[f] EXCEPT !.class = "valid"]
                                                         ELSE span[f]]
        /\ checked' = [f \in Fields |-> IF FormOf[f] = form THEN "never" ELSE checked[f]]
    BY <1>4 DEF Forget
  <2>2. /\ checked' \in [Fields -> Values \cup {"never", "server"}]
        /\ submitted' \subseteq Fields \ Ignored /\ invalid' \subseteq Fields \ Ignored
    BY <2>1, FormParts
  <2>3. ASSUME NEW f \in Fields
        PROVE  /\ span'[f] \in SpanType
               /\ FormOf[f] = form => span'[f].class = "valid" /\ checked'[f] = "never"
               /\ FormOf[f] # form => span'[f] = span[f] /\ checked'[f] = checked[f]
    <3>1. span[f] \in SpanType
      BY FormParts
    <3> QED BY <2>1, <3>1 DEF SpanType
  <2>4. span' \in [Fields -> SpanType]
    BY <2>1, <2>3
  <2>5. MessageFollowsCheck'
    BY <2>3, FormParts, FormsAssumption DEF MessageFollowsCheck
  <2>6. \A g \in Forms : summary'[g] \in SummaryType /\ summary'[g].items = summary[g].items
    BY <2>1, FormParts DEF SummaryType
  <2>7. summary' = [g \in Forms |-> summary'[g]]
    BY <2>1, FormParts
  <2>8. summary' \in [Forms -> SummaryType]
    BY <2>6, <2>7
  <2>9. FormTypeOK'
    BY <1>1, <1>2, <2>2, <2>4, <2>8 DEF FormIInv, FormTypeOK, SpanType, SummaryType
  <2> QED BY <1>1, <2>5, <2>6, <2>9 DEF FormIInv, RulesAreParsed
<1> QED BY <1>1, <1>3, <1>4

LEMMA ParseDocumentInv ==
  ASSUME FormIInv, NEW forms \in SUBSET Forms, ParseDocument(forms)
  PROVE  FormIInv'
<1>1. /\ validator' = [form \in Forms |->
            IF form \in forms /\ Parsable(form)
            THEN [attached |-> TRUE,
                  rules |-> [f \in Fields |-> IF FormOf[f] = form THEN StaticRules(f) ELSE {}]]
            ELSE validator[form]]
      /\ UNCHANGED <<value, rendered, submitted, invalid, span, summary, checked, posted>>
  BY DEF ParseDocument, Attach
<1>2. \A form \in Forms : RulesAreParsed(form)'
  BY <1>1 DEF FormIInv, RulesAreParsed, NotAttached, StaticRules, ParsedRules, ValidationValues
<1>3. FormTypeOK' /\ MessageFollowsCheck'
  BY <1>1 DEF FormIInv, FormTypeOK, MessageFollowsCheck
<1> QED BY <1>1, <1>2, <1>3 DEF FormIInv

LEMMA RenderedFormInv ==
  ASSUME NEW refused \in SUBSET Fields, NEW blamed \in SUBSET Forms, NEW entered \in [Fields -> Values],
         RenderedForm(refused, blamed, entered)
  PROVE  FormIInv'
<1>1. /\ validator' = [form \in Forms |-> NotAttached] /\ value' = entered /\ rendered' = entered
      /\ submitted' = {} /\ invalid' = {} /\ posted' = [form \in Forms |-> "no"]
      /\ span' = [f \in Fields |->
            IF f \in refused \cap WithSpan THEN [class |-> "error", text |-> "server"]
                                           ELSE [class |-> "valid", text |-> "fine"]]
      /\ checked' = [f \in Fields |-> IF f \in refused \cap WithSpan THEN "server" ELSE "never"]
  BY DEF RenderedForm
<1>2. ASSUME NEW form \in Forms
      PROVE  /\ summary'[form] \in SummaryType
             /\ \A item \in summary'[form].items : item[1] \in FieldsOf(form) \cup {form}
  <2> DEFINE mine == (refused \cap FieldsOf(form)) \cup (blamed \cap {form})
             items == mine \X {"server"}
  <2>1. summary'[form] = IF items # {} /\ form \in WithSummary
                         THEN [class |-> "error", items |-> items]
                         ELSE [class |-> "valid", items |-> {}]
    BY DEF RenderedForm
  <2>2. mine \subseteq FieldsOf(form) \cup {form} /\ mine \subseteq Fields \cup Forms
    OBVIOUS
  <2> HIDE DEF mine
  <2>3. items \subseteq (Fields \cup Forms) \X (Flaws \cup {"server"}) /\ \A item \in items : item[1] \in mine
    BY <2>2
  <2> HIDE DEF items
  <2> QED BY <2>1, <2>2, <2>3 DEF SummaryType
<1>3. summary' = [form \in Forms |-> summary'[form]]
  BY DEF RenderedForm
<1>4. summary' \in [Forms -> SummaryType]
  BY <1>2, <1>3
<1>5. span' \in [Fields -> SpanType] /\ checked' \in [Fields -> Values \cup {"never", "server"}]
  BY <1>1, FineIsNoFlaw DEF SpanType
<1>6. FormTypeOK'
  BY <1>1, <1>4, <1>5 DEF FormTypeOK, SpanType, SummaryType
<1>7. MessageFollowsCheck'
  BY <1>1, FormsAssumption DEF MessageFollowsCheck
<1>8. \A form \in Forms : RulesAreParsed(form)'
  BY <1>1 DEF RulesAreParsed, NotAttached
<1> QED BY <1>2, <1>6, <1>7, <1>8 DEF FormIInv

LEMMA FormInitInv == FormInit => FormIInv
<1> SUFFICES ASSUME FormInit
             PROVE  FormIInv
  OBVIOUS
<1>1. FormTypeOK
  BY FormsAssumption, FineIsNoFlaw DEF FormInit, FormTypeOK
<1>2. MessageFollowsCheck
  BY FormsAssumption DEF FormInit, MessageFollowsCheck
<1>3. \A form \in Forms : RulesAreParsed(form)
  BY DEF FormInit, RulesAreParsed
<1>4. \A form \in Forms : summary[form].items = {}
  BY DEF FormInit
<1> QED BY <1>1, <1>2, <1>3, <1>4 DEF FormIInv

LEMMA FormNextInv ==
  ASSUME FormIInv, NEW forms \in SUBSET Forms, FormNext(forms)
  PROVE  FormIInv'
BY EntryInv, FocusOutInv, SubmitUncheckedInv, SubmitCheckedInv, ResetInv DEF FormNext, FieldsOf

(* Steps that are not of the forms, or not of the scripts.                  *)
LEMMA Unaffected ==
  /\ PageIInv /\ UNCHANGED pageVars => PageIInv'
  /\ FormIInv /\ UNCHANGED formVars => FormIInv'
<1>1. PageIInv /\ UNCHANGED pageVars => PageIInv'
  BY PartsKept, PageParts DEF pageVars
<1>2. FormIInv /\ UNCHANGED formVars => FormIInv'
  BY DEF formVars, FormIInv, FormTypeOK, MessageFollowsCheck, RulesAreParsed
<1> QED BY <1>1, <1>2

-----------------------------------------------------------------------------
(* 6. The theorems *)

LEMMA NextKeepsIInv == IInv /\ [Next]_vars => IInv'
<1> SUFFICES ASSUME IInv, [Next]_vars
             PROVE  IInv'
  OBVIOUS
<1>1. PageIInv /\ FormIInv
  BY DEF IInv
<1>2. CASE UNCHANGED vars
  BY <1>1, <1>2, Unaffected DEF vars, IInv
<1>3. ASSUME NEW p \in Pages, Navigate(p)
      PROVE  IInv'
  <2>1. RenderedForm({}, {}, Prefilled) /\ {} \in SUBSET Fields /\ {} \in SUBSET Forms
    BY <1>3 DEF Navigate
  <2>2. FormIInv'
    BY <2>1, RenderedFormInv, FormsAssumption
  <2> QED BY <1>1, <1>3, <2>2, PageLoadInv DEF Navigate, IInv
<1>4. ASSUME NEW form \in Forms, ServerRefuses(form)
      PROVE  IInv'
  <2>1. page \in Pages /\ value \in [Fields -> Values]
    BY <1>1, FormParts DEF PageIInv, PageTypeOK
  <2>2. PICK refused \in SUBSET (FieldsOf(form) \ Ignored), blamed \in SUBSET {form} :
           RenderedForm(refused, blamed, Returned)
    BY <1>4 DEF ServerRefuses
  <2>3. refused \in SUBSET Fields /\ blamed \in SUBSET Forms
    BY DEF FieldsOf
  <2>4. Returned \in [Fields -> Values]
    BY <2>1 DEF Returned, Values, Flaws
  <2> QED BY <1>1, <1>4, <2>1, <2>2, <2>3, <2>4, PageLoadInv, RenderedFormInv DEF ServerRefuses, IInv
<1>5. CASE PageNext /\ UNCHANGED formVars
  BY <1>1, <1>5, PageNextInv, Unaffected DEF IInv
<1>6. CASE JQueryReady
  <2>1. FormsOn[page] \in SUBSET Forms /\ ParseDocument(FormsOn[page]) /\ UNCHANGED pageVars
    BY <1>1, <1>6, FormsOnAssumption DEF JQueryReady, PageIInv, PageTypeOK
  <2> QED BY <1>1, <2>1, ParseDocumentInv, Unaffected DEF IInv
<1>7. CASE FormNext(FormsOn[page]) /\ UNCHANGED pageVars
  <2>1. FormsOn[page] \in SUBSET Forms
    BY <1>1, FormsOnAssumption DEF PageIInv, PageTypeOK
  <2> QED BY <1>1, <1>7, <2>1, FormNextInv, Unaffected DEF IInv
<1>8. FormsOn[page] \in SUBSET Forms
  BY <1>1, FormsOnAssumption DEF PageIInv, PageTypeOK
<1> QED BY <1>2, <1>3, <1>4, <1>5, <1>6, <1>7, <1>8 DEF Next

(* The state of the scripts and of the forms stays related as IInv says,    *)
(* whatever the events, their order and the pages they happen on.           *)
THEOREM Invariance == Spec => []IInv
<1>1. Init => IInv
  BY PageInitInv, FormInitInv DEF Init, IInv
<1> QED BY <1>1, NextKeepsIInv, PTL DEF Spec

(* The stored theme is the one shown, over all pages and reloads, until     *)
(* another tab stores one.                                                  *)
THEOREM StoredThemeShown == Spec => []ThemePersists
<1>1. IInv => ThemePersists
  BY DEF IInv, PageIInv
<1> QED BY <1>1, Invariance, PTL

(* Search and filter never leave a mixture of what each would hide.         *)
THEOREM LastControlDecides == Spec => []OneControlDecides
<1>1. IInv => OneControlDecides
  BY DEF IInv, PageIInv
<1> QED BY <1>1, Invariance, PTL

(* A copy button has its own caption back once nothing is under way, unless *)
(* copies overlapped.                                                       *)
THEOREM CaptionRestored == Spec => []CaptionComesBack
<1>1. IInv => CaptionComesBack
  BY DEF IInv, PageIInv, CopyOK, CaptionComesBack
<1> QED BY <1>1, Invariance, PTL

(* A counter that has stopped, or never ran, shows its target: no order or  *)
(* timing of frames stops one anywhere else.                                *)
THEOREM CountersStopAtTarget ==
  Spec => [](\A c \in Counters : ~counter[c].queued => counter[c].text = Target[c])
<1>1. IInv => \A c \in Counters : ~counter[c].queued => counter[c].text = Target[c]
  BY DEF IInv, PageIInv, CounterOK
<1> QED BY <1>1, Invariance, PTL

(* The message beside a field is that of its last check.                    *)
THEOREM MessagesAreCurrent == Spec => []MessageFollowsCheck
<1>1. IInv => MessageFollowsCheck
  BY DEF IInv, FormIInv
<1> QED BY <1>1, Invariance, PTL

(* A checked form is sent if and only if its visible fields have no flaw    *)
(* they exclude.                                                            *)
LEMMA SubmissionIsJust ==
  ASSUME IInv, NEW form \in Forms, SubmitChecked(form), posted[form] = "no"
  PROVE  posted'[form] = "checked"
            <=> \A f \in FieldsOf(form) \ Ignored :
                  /\ value[f] \notin Demanded(f)
                  /\ "equalto" \in DOMAIN Attributes[f] => value[f] = value[OtherElement(f)]
<1>1. FormIInv /\ value' = value /\ validator[form].attached
  BY DEF IInv, SubmitChecked
<1>2. posted'[form] = "checked" <=> RefusedFields(form) = {}
  <2>1. posted \in [Forms -> {"no", "checked", "unchecked"}]
    BY <1>1, FormParts
  <2> QED BY <2>1 DEF SubmitChecked, Send
<1>3. ASSUME NEW f \in FieldsOf(form) \ Ignored
      PROVE  f \in RefusedFields(form)
                <=> ~(/\ value[f] \notin Demanded(f)
                      /\ "equalto" \in DOMAIN Attributes[f] => value[f] = value[OtherElement(f)])
  <2>1. f \in Fields /\ FormOf[f] = form /\ value[f] \in Values
    BY <1>1, FormParts DEF FieldsOf
  <2>2. RulesOf(f) = NativeRules(f) \cup StaticRules(f)
    BY <1>1, <2>1, RulesOfFields
  <2>3. f \in RefusedFields(form) <=> Rejected(f)
    BY <1>1, <2>1 DEF RefusedFields, Watched, Rejected, Flawed
  <2>4. Flawed(f) <=> value[f] \in Demanded(f)
    BY <1>1, <2>1, <2>2, RulesAreDemands DEF Flawed
  <2>5. "equalTo" \in RulesOf(f) <=> "equalto" \in DOMAIN Attributes[f]
    BY <2>1, <2>2, OnlyEqualTo
  <2>6. Rejected(f) <=> \/ value[f] \in Demanded(f)
                        \/ "equalto" \in DOMAIN Attributes[f] /\ value[f] # value[OtherElement(f)]
    BY <1>1, <2>4, <2>5 DEF Rejected
  <2> QED BY <2>3, <2>6
<1>4. RefusedFields(form) \subseteq FieldsOf(form) \ Ignored
  BY DEF RefusedFields, Watched
<1> QED BY <1>2, <1>3, <1>4

(* jquery.validate with the unobtrusive adapters: with a validator attached *)
(* a form is sent if and only if no visible field has a flaw that its       *)
(* data-val-*, its HTML attributes, its type or its classes exclude.        *)
THEOREM FormsPostTheAcceptable == Spec => PostsExactlyTheAcceptable
<1> DEFINE A == \A form \in Forms : SubmitChecked(form) /\ posted[form] = "no" =>
                   (posted'[form] = "checked"
                       <=> \A f \in FieldsOf(form) \ Ignored :
                             /\ value[f] \notin Demanded(f)
                             /\ "equalto" \in DOMAIN Attributes[f] => value[f] = value[OtherElement(f)])
<1>1. IInv => A
  BY SubmissionIsJust
<1> QED BY <1>1, Invariance, PTL DEF PostsExactlyTheAcceptable

(* What has neither a message element nor a summary is a checkbox that only *)
(* the adapter of "required" looks at, which leaves checkboxes alone.       *)
LEMMA UnexplainedIsNeverRefused ==
  ASSUME FormIInv, NEW f \in Fields, validator[FormOf[f]].attached,
         f \in Checkboxes, NativeRules(f) = {}, DOMAIN Attributes[f] \subseteq {"required"}
  PROVE  ~Rejected(f)
<1>1. \A a \in DOMAIN Attributes[f] : Adapted(f, a) = {}
  BY AdaptedRules DEF RequiredRule
<1>2. RulesOf(f) \subseteq {"__dummy__"}
  BY <1>1, RulesOfFields DEF StaticRules, ParsedRules, ValidationValues
<1>3. Rejects("__dummy__") = {}
  BY RulesReject
<1> QED BY <1>2, <1>3 DEF Rejected, Flawed

(* Every field that stopped a submission has its message beside it or in    *)
(* the summary.                                                             *)
THEOREM RefusalsExplained == Spec => RefusalIsExplained
<1> DEFINE A == \A form \in Forms : SubmitChecked(form) =>
                   \A f \in RefusedFields(form) :
                      \/ span'[f] = [class |-> "error", text |-> Message(f)]
                      \/ <<f, Message(f)>> \in summary'[form].items
<1>1. IInv => A
  <2> SUFFICES ASSUME IInv, NEW form \in Forms, SubmitChecked(form), NEW f \in RefusedFields(form)
               PROVE  \/ span'[f] = [class |-> "error", text |-> Message(f)]
                      \/ <<f, Message(f)>> \in summary'[form].items
    OBVIOUS
  <2>1. /\ f \in Fields /\ FormOf[f] = form /\ f \notin Ignored /\ Rejected(f)
        /\ f \in Watched(form) /\ validator[form].attached /\ FormIInv
    BY DEF RefusedFields, Watched, FieldsOf, IInv
  <2>2. CASE f \in WithSpan
    <3>1. span'[f] = Shown(f)
      BY <2>1 DEF SubmitChecked, Check
    <3> QED BY <2>1, <2>2, <3>1, WhatIsShown
  <2>3. CASE f \notin WithSpan
    <3>1. form \in WithSummary /\ DOMAIN summary = Forms
      BY <2>1, <2>3, UnexplainedIsNeverRefused, MessagesAssumption DEF FormIInv, FormTypeOK
    <3> QED BY <3>1 DEF SubmitChecked, Listed
  <2> QED BY <2>2, <2>3
<1> QED BY <1>1, Invariance, PTL DEF RefusalIsExplained
=============================================================================
