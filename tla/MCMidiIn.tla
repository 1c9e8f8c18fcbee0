------------------------------ MODULE MCMidiIn ------------------------------
(* Messages for MidiIn: a note or controller (three bytes), a program      *)
(* change (two), a clock (one), and a system exclusive message.            *)
EXTENDS MidiIn

Three == <<"status", "data", "data">>
Two == <<"status", "data">>
Clock == <<"system">>
SysEx == <<"system", "data", "data", "data", "system">>

AllShapes == {Three, Two, Clock, SysEx}
NotesOnly == {Three}
=============================================================================
