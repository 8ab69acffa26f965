CONSTANTS
    Tasks = {ta, tb}
    Plain = {ta}
    Slots = {s1, s2}
    OldTasks = {ta}
    MaxKept = 2
    MaxTicks = 4

SPECIFICATION HistorySpec

INVARIANT TextsStay

\* Edits come a few times and the history empties: the system may stop.
CHECK_DEADLOCK FALSE
