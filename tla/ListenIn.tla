------------------------------ MODULE ListenIn ------------------------------
(* One call inside the recording menu, over the AGI: a family handset, whose
   place is kept on disk, or a public caller on a shelf or the story of the day,
   whose time is limited.  Every AGI command is one step: it looks at the limit,
   takes some time and returns with or without a key.  Any of them may find that
   the caller has hung up. *)
EXTENDS Naturals, Integers, FiniteSets

CONSTANTS
    Titles,         \* titles on the shelf
    PageSize,       \* titles in a page
    Chapters,       \* chapters of a book
    ChapterLen,     \* their length
    Window,         \* the most one playback command plays
    PromptLen,      \* the longest prompt
    WaitLen,        \* how long a key is waited for
    Total,          \* a public caller's listening time
    Warning,        \* the lead of its warning
    EndLead         \* the lead of its end

VARIABLES
    mode,           \* "handset", "shelf" or "story"
    at,             \* the command about to run, or "decide" ones, or where the call ended
    answered,       \* the command at `at` has returned
    key,            \* with this key, 0 for none
    now,            \* time since the application began
    warned,         \* the limit's warning has been given
    page,           \* the shelf's page
    armed,          \* a star was the last key: pound picks a page
    failures,       \* tries spent in this menu
    kind,           \* "books" or "chapters": the list being browsed
    book,           \* the title open, 0 for none
    pos,            \* [chapter, seconds, speed, started] of the open title
    saved,          \* the place kept for each title
    paused

vars == <<mode, at, answered, key, now, warned, page, armed, failures, kind, book, pos, saved, paused>>
menu == <<page, armed, failures, kind>>
place == <<book, pos, saved, paused>>

Public == mode # "handset"
Keys == {"0", "1", "2", "3", "4", "5", "6", "8", "*", "#"}
NoKey == "none"
Tries == 3

Start == [chapter |-> 1, seconds |-> 0, speed |-> 1, started |-> FALSE]
Places == [chapter : 1..Chapters, seconds : 0..ChapterLen, speed : 1..2, started : BOOLEAN]

TypeOK ==
    /\ mode \in {"handset", "shelf", "story"}
    /\ answered \in BOOLEAN /\ warned \in BOOLEAN /\ armed \in BOOLEAN /\ paused \in BOOLEAN
    /\ key \in Keys \cup {NoKey} /\ now \in Nat /\ failures \in 0..Tries
    /\ kind \in {"books", "chapters"} /\ book \in 0..Titles /\ pos \in Places
    /\ saved \in [1..Titles -> Places]

-----------------------------------------------------------------------------
(* The limit of a public call *)

WarnAt == Total - Warning
EndAt == Total - EndLead

Late == Public /\ now >= EndAt
WarnNow == Public /\ ~warned /\ now >= WarnAt

Until(w, t) == IF ~w /\ WarnAt < EndAt THEN WarnAt - t ELSE EndAt - t
Least(a, b) == IF a < b THEN a ELSE b
Most(a, b) == IF a > b THEN a ELSE b

Prompts == {"announce", "picker", "invalid", "unavailable", "title", "resume", "book", "intro",
            "controls", "pausedPrompt", "speed", "finished", "goodbye"}
Waits == {"wait", "pickWait", "bookWait", "pausedWait"}
InPlayback == {"intro", "window", "controls", "speed", "pausedPrompt", "pausedWait", "finished"}
Commands == Prompts \cup Waits \cup {"window"}

WaitFor(w, t) == IF Public THEN Most(Least(Until(w, t), WaitLen), 1) ELSE WaitLen

\* Mutant of WindowLen: A window is played to its end.
WholeWindow(w, t) == Least(Window, ChapterLen - pos.seconds)

\* The piece of a window that may be played before the limit must be looked at again.
WindowLen(w, t) ==
    LET left == Least(Window, ChapterLen - pos.seconds) IN
    IF Public THEN Most(Least(left, Until(w, t)), 1) ELSE left

Length(c, w, t) ==
    CASE c = "window" -> WindowLen(w, t) [] c \in Waits -> WaitFor(w, t) [] OTHER -> PromptLen

\* A prompt with a key in it stops there; playback moves the place on.
Heard(d) == [pos EXCEPT !.seconds = Least(ChapterLen, @ + d * pos.speed)]

Keep(p) == IF book = 0 THEN saved ELSE [saved EXCEPT ![book] = p]

Command ==
    /\ at \in Commands /\ ~answered /\ ~Late
    /\ \E k \in Keys \cup {NoKey}, lead \in IF WarnNow THEN 0..PromptLen ELSE {0} :
       LET w == warned \/ WarnNow IN
       \E d \in 0..Length(at, w, now + lead) :
        /\ now' = IF Public THEN now + lead + d ELSE now     \* only a limit reads the clock
        /\ warned' = w
        /\ k = NoKey => d = Length(at, w, now + lead)
        /\ key' = k /\ answered' = TRUE
        /\ pos' = IF at = "window" THEN Heard(d) ELSE pos
        /\ saved' = IF at = "window" THEN Keep(Heard(d)) ELSE saved
    /\ UNCHANGED <<mode, at, menu, book, paused>>

\* The application notices on its next command that the time is up, and says so.
TimeUp ==
    /\ at \in Commands /\ ~answered /\ Late
    /\ at' = "ended"
    /\ UNCHANGED <<mode, answered, key, now, warned, menu, place>>

\* Leaving playback keeps the place, however it is left.
HangUp ==
    /\ at \in Commands /\ ~answered
    /\ at' = "gone"
    /\ \E d \in IF at = "window" THEN 0..WindowLen(warned, now) ELSE {0} :
        pos' = Heard(d) /\ saved' = IF at \in InPlayback THEN Keep(Heard(d)) ELSE saved
    /\ UNCHANGED <<mode, answered, key, now, warned, menu, book, paused>>

-----------------------------------------------------------------------------
(* Init: what each way in checks, and where it begins *)

\* A story is exactly one title, and a limit is a positive time.
RunListen == Public => Total > 0 /\ (mode = "story" => Titles = 1)

Init ==
    /\ mode \in {"handset", "shelf", "story"} /\ RunListen
    /\ answered = FALSE /\ key = NoKey /\ now = 0 /\ warned = FALSE
    /\ page = 1 /\ armed = FALSE /\ failures = 0 /\ kind = "books"
    /\ book = IF mode = "story" THEN 1 ELSE 0
    /\ pos = IF mode = "story" THEN [Start EXCEPT !.started = TRUE] ELSE Start
    /\ saved = [t \in 1..Titles |-> pos]
    /\ paused = FALSE
    /\ at \in IF mode = "story" THEN {"window", "unavailable"} ELSE {"announce"}

-----------------------------------------------------------------------------
(* The shelf *)

Count == IF kind = "books" THEN Titles ELSE Chapters
Pages == (Count + PageSize - 1) \div PageSize

To(a) == at' = a /\ answered' = FALSE /\ key' = NoKey
Stay == UNCHANGED <<mode, now, warned>>

\* Titles are chosen by their place on the page, `Digit(i)` being the i-th key.
Digit(i) == CASE i = 1 -> "1" [] i = 2 -> "2" [] i = 3 -> "3" [] OTHER -> "4"
Chosen == {i \in 1..Count : i > (page - 1) * PageSize /\ i <= page * PageSize /\ key = Digit(i - (page - 1) * PageSize)}

Wait == /\ answered /\ key = NoKey
        /\ \/ at = "announce" /\ To("wait")
           \/ at = "picker" /\ To("pickWait")
           \/ at = "book" /\ To("bookWait")
        /\ Stay /\ UNCHANGED <<menu, place>>

Browsing == answered /\ (at = "wait" \/ (at = "announce" /\ key # NoKey))

\* Zero, or the third failure, leaves the list: the shelf for good, the chapters for the book.
Leave == IF kind = "books" THEN To("goodbye") ELSE To("title")

BrowseBack ==
    /\ Browsing /\ key = "0" /\ Leave
    /\ Stay /\ page' = 1 /\ armed' = FALSE /\ failures' = 0 /\ kind' = "books" /\ UNCHANGED place

BrowseStar ==
    /\ Browsing /\ key = "*" /\ To("announce")
    /\ armed' = TRUE /\ failures' = 0 /\ Stay /\ UNCHANGED <<page, kind, place>>

\* Pound turns the page; on the last page, or after a star, it asks for one.
BrowsePound ==
    /\ Browsing /\ key = "#" /\ armed' = FALSE
    /\ IF ~armed /\ page < Pages THEN To("announce") /\ page' = page + 1 /\ failures' = 0
       ELSE To("picker") /\ UNCHANGED <<page, failures>>
    /\ Stay /\ UNCHANGED <<kind, place>>

\* A page number between one and the last; anything else is one of the picker's tries.
PickPage ==
    /\ answered /\ (at = "pickWait" \/ (at = "picker" /\ key # NoKey))
    /\ \/ To("announce") /\ page' \in 1..Pages
       \/ (To("announce") \/ To("picker")) /\ UNCHANGED page
    /\ Stay /\ UNCHANGED <<armed, failures, kind, place>>

BrowseWrong ==
    /\ Browsing /\ key \notin {"0", "*", "#"} /\ Chosen = {} /\ armed' = FALSE
    /\ IF failures + 1 < Tries THEN To(IF key = NoKey THEN "announce" ELSE "invalid") /\ failures' = failures + 1 /\ UNCHANGED <<page, kind>>
       ELSE Leave /\ failures' = 0 /\ page' = 1 /\ kind' = "books"
    /\ Stay /\ UNCHANGED place

Invalid == at = "invalid" /\ answered /\ To("announce") /\ Stay /\ UNCHANGED <<menu, place>>

LoadProgress(t) == IF saved[t] \in Places THEN saved[t] ELSE Start

\* A title that is not ready is said to be unavailable and the shelf goes on.
ChooseBook ==
    /\ Browsing /\ kind = "books" /\ armed' = FALSE
    /\ \E t \in Chosen :
        \/ To("title") /\ book' = t /\ pos' = LoadProgress(t) /\ failures' = 0
        \/ To("unavailable") /\ failures' = 0 /\ UNCHANGED <<book, pos>>
    /\ Stay /\ UNCHANGED <<page, kind, saved, paused>>

Unavailable ==
    /\ at = "unavailable" /\ answered
    /\ To(IF mode = "story" THEN "goodbye" ELSE "announce")
    /\ book' = 0 /\ Stay /\ UNCHANGED <<menu, pos, saved, paused>>

Goodbye == at = "goodbye" /\ answered /\ To("over") /\ Stay /\ UNCHANGED <<menu, place>>

-----------------------------------------------------------------------------
(* One title *)

BookPrompts ==
    /\ answered /\ key = NoKey
    /\ \/ at = "title" /\ To(IF pos.started THEN "resume" ELSE "book")
       \/ at = "resume" /\ To("book")
    /\ Stay /\ UNCHANGED <<menu, place>>

BookKey == answered /\ (at = "bookWait" \/ (at \in {"title", "resume", "book"} /\ key # NoKey))

BookBack ==
    /\ BookKey /\ key = "0" /\ To("announce") /\ kind' = "books" /\ book' = 0 /\ failures' = 0
    /\ Stay /\ UNCHANGED <<page, armed, pos, saved, paused>>

BookStar == BookKey /\ key = "*" /\ To("title") /\ Stay /\ UNCHANGED <<menu, place>>

\* Playing begins with the place written down; the title is looked at once more.
Play(p) ==
    \/ /\ To("intro") /\ pos' = [p EXCEPT !.started = TRUE] /\ saved' = Keep([p EXCEPT !.started = TRUE]) /\ failures' = 0
       /\ UNCHANGED <<book, paused>>
    \/ To("unavailable") /\ failures' = 0 /\ pos' = p /\ UNCHANGED <<book, saved, paused>>

BookPlay ==
    /\ BookKey
    /\ \/ key = "1" /\ pos.started /\ Play(pos)
       \/ key = "2" /\ Play([pos EXCEPT !.chapter = 1, !.seconds = 0])
    /\ Stay /\ UNCHANGED <<page, armed, kind>>

BookChapters ==
    /\ BookKey /\ key = "3" /\ To("announce") /\ kind' = "chapters" /\ page' = 1 /\ armed' = FALSE /\ failures' = 0
    /\ Stay /\ UNCHANGED place

ChooseChapter ==
    /\ Browsing /\ kind = "chapters"
    /\ \E i \in Chosen : Play([pos EXCEPT !.chapter = i, !.seconds = 0])
    /\ Stay /\ armed' = FALSE /\ page' = 1 /\ kind' = "books"

BookWrong ==
    /\ BookKey /\ key \notin {"0", "*", "2", "3"} /\ ~(key = "1" /\ pos.started)
    /\ IF failures + 1 < Tries THEN To("title") /\ failures' = failures + 1 /\ UNCHANGED book
       ELSE To("announce") /\ failures' = 0 /\ book' = 0
    /\ Stay /\ UNCHANGED <<page, armed, kind, pos, saved, paused>>

-----------------------------------------------------------------------------
(* Listening *)

AtEnd(p) == p.seconds = ChapterLen

\* The end of a chapter is the start of the next, but for the last.
Settled(p) == IF AtEnd(p) /\ p.chapter < Chapters THEN [p EXCEPT !.chapter = @ + 1, !.seconds = 0] ELSE p
Playback(p) == IF AtEnd(p) THEN "finished" ELSE "window"

Onward ==
    /\ answered /\ key = NoKey /\ at \in InPlayback \ {"finished"} /\ ~paused
    /\ pos' = Settled(pos) /\ saved' = Keep(pos') /\ To(Playback(pos'))
    /\ Stay /\ UNCHANGED <<menu, book, paused>>

StopListening == To(IF mode = "story" THEN "goodbye" ELSE "title")

PlaybackBack ==
    /\ answered /\ at \in InPlayback \ {"finished"} /\ key = "0" /\ StopListening
    /\ Stay /\ paused' = FALSE /\ saved' = Keep(pos) /\ UNCHANGED <<menu, book, pos>>

Moved(k) ==
    CASE k = "1" -> [pos EXCEPT !.chapter = Most(1, @ - 1), !.seconds = 0]
      [] k = "3" -> IF pos.chapter < Chapters THEN [pos EXCEPT !.chapter = @ + 1, !.seconds = 0] ELSE pos
      [] k = "2" -> [pos EXCEPT !.speed = Least(2, @ + 1)]
      [] k = "8" -> [pos EXCEPT !.speed = Most(1, @ - 1)]
      [] k = "4" -> [pos EXCEPT !.seconds = Most(0, @ - 1)]
      [] k = "6" -> [pos EXCEPT !.seconds = Least(ChapterLen, @ + 1)]
      [] OTHER -> pos

\* A key moves the place, turns the pause or changes the speed, which is said.
PlaybackKey ==
    /\ answered /\ at \in InPlayback \ {"finished"} /\ key \notin {NoKey, "0", "*"}
    /\ paused' = (paused # (key = "5"))
    /\ LET said == Moved(key).speed # pos.speed
           p == IF said \/ paused' THEN Moved(key) ELSE Settled(Moved(key)) IN
       /\ pos' = p /\ saved' = Keep(p)
       /\ To(IF said THEN "speed" ELSE IF paused' THEN "pausedPrompt" ELSE Playback(p))
    /\ Stay /\ UNCHANGED <<menu, book>>

PlaybackStar ==
    /\ answered /\ at \in InPlayback \ {"finished"} /\ key = "*" /\ To("controls")
    /\ Stay /\ UNCHANGED <<menu, place>>

\* A pause waits for a key a few times, then gives the title up.
Pausing ==
    /\ answered /\ key = NoKey /\ paused /\ at \in InPlayback \ {"finished"}
    /\ CASE at \in {"pausedPrompt", "pausedWait"} -> To("pausedWait") \/ (at = "pausedWait" /\ StopListening)
         [] OTHER -> To("pausedPrompt")
    /\ paused' = IF at' \in {"pausedPrompt", "pausedWait"} THEN paused ELSE FALSE
    /\ Stay /\ saved' = Keep(pos) /\ UNCHANGED <<menu, book, pos>>

Finished ==
    /\ at = "finished" /\ answered /\ StopListening
    /\ Stay /\ paused' = FALSE /\ saved' = Keep(pos) /\ UNCHANGED <<menu, book, pos>>

Decide ==
    \/ Wait \/ BrowseBack \/ BrowseStar \/ BrowsePound \/ PickPage \/ BrowseWrong \/ Invalid \/ ChooseBook
    \/ Unavailable \/ Goodbye \/ BookPrompts \/ BookBack \/ BookStar \/ BookPlay \/ BookChapters
    \/ ChooseChapter \/ BookWrong \/ Onward \/ PlaybackBack \/ PlaybackKey \/ PlaybackStar \/ Pausing \/ Finished

Next == Command \/ TimeUp \/ HangUp \/ Decide

Spec == Init /\ [][Next]_vars
-----------------------------------------------------------------------------
\* A public call ends in its time, give or take the clip it was in, is warned
\* before it does, and the place every listener leaves is one the book has.
ListenerIsKept ==
    /\ Public => now <= EndAt + 2 * PromptLen
    /\ at = "ended" /\ Warning - EndLead >= PromptLen => warned
    /\ pos \in Places /\ book # 0 => saved[book] \in Places

\* However playback is left, the place kept is the one that was heard.
PlaceIsKept ==
    (at \in InPlayback /\ at' \notin InPlayback) => (saved'[book] = pos')
=============================================================================
