CONSTANT StartRace = FALSE
SPECIFICATION Spec
INVARIANTS OneOwner HostObjectsLive RestartHonoured RunsExactlyWhenWanted SilentWhenParked NobodyStuck
PROPERTIES ControlSpec CallsReturn FramesFlow
