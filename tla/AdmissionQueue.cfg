CONSTANTS
    Players = {p1, p2, p3, p4, p5}
    MaxPlayers = 3
    ReservedSlots = 1
    MaxQueueLen = 2
    StaleAfter = 1
    Times = {0, 2}
SPECIFICATION QueueFairSpec
INVARIANTS
    SlotCaps
    NoIdleSlot
PROPERTIES NoOvertaking WaitersServed ImplementsSlots
