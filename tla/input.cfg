SPECIFICATION InputSpec
CONSTANTS
  Keys = {"a", "A", "F13", "F15", "lshift", "rctrl", "F14", "printscreen", "F19", "lsuper", "left", "enter", "c", "grave", "null", "pause", "begin", "backspace", "backslash", "tilde", "rsuper"}
  Mods = {"shift", "control", "super", "alt"}
  Bytes = {"esc", "[", "O", "200", "201", "n", "<", "sp", "~", "A", "u", "M", "y", "x", "ctl", "lead", "cont"}
  Capacity = 5
  MaxPaste = 6
INVARIANTS HeldInGuest NoStuckPosition PastesAreText SequencesAreWhole ButtonsFollow
