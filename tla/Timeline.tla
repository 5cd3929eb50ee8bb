------------------------------ MODULE Timeline ------------------------------
(***************************************************************************)
(* renderTimeline(data) of campaign_results.js: the detail row shown under *)
(* a result lists the campaign timeline events that carry no hostname or  *)
(* the row's hostname, each decorated through the statuses table.  An     *)
(* event is reduced to its hostname and message; the rendered HTML to the *)
(* positions of the events it lists, or to the TypeError thrown by        *)
(* statuses[event.message].label when the message has no entry.          *)
(***************************************************************************)
EXTENDS Integers, Sequences

CONSTANTS
    Hosts,          \* hostnames of targets
    NoHost,         \* an event without hostname (campaign-level)
    OtherMessage,   \* a message the statuses table has no entry for
    TypeError,      \* the exception thrown by undefined.label
    MaxEvents       \* bound on the length of campaign.timeline

VARIABLE timeline   \* campaign.timeline, in the order the backend sent it

\* The keys of the statuses table.
Statuses == {"Active", "In progress", "Completed", "USB Mounted", "Opened Macro",
             "Opened Executable", "Opened Everything", "Unknown", "Campaign Created"}

Event == [hostname: Hosts \cup {NoHost}, message: Statuses \cup {OtherMessage}]

\* The filter of the $.each loop: !event.hostname || event.hostname == record.hostname.
Matches(e, h) == e.hostname = NoHost \/ e.hostname = h

\* One iteration of the loop over campaign.timeline for the row of hostname
\* h, on the events listed so far: a listed event looks up
\* statuses[event.message].label and .icon, and an exception escapes the
\* handler, ending the loop.
RenderStep(acc, tl, n, h) ==
    IF acc = TypeError \/ ~Matches(tl[n], h) THEN acc
    ELSE IF tl[n].message \notin Statuses THEN TypeError
    ELSE Append(acc, n)

\* The whole loop.
RenderTimeline(tl, h) ==
    LET f[n \in 0..Len(tl)] ==
            IF n = 0 THEN <<>> ELSE RenderStep(f[n - 1], tl, n, h)
    IN  f[Len(tl)]

Init == timeline \in UNION {[1..n -> Event] : n \in 0..MaxEvents}

\* The rendering is a pure function of the timeline: nothing else changes.
Next == UNCHANGED timeline

Spec == Init /\ [][Next]_timeline

-----------------------------------------------------------------------------
(* A message missing from the statuses table degrades to the "Unknown"    *)
(* classification instead of failing the detail row (spec 4.3, 7).        *)
UnknownMessageDegrades ==
    \A h \in Hosts \cup {NoHost} : RenderTimeline(timeline, h) # TypeError
=============================================================================
