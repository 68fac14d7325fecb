SPECIFICATION Spec
CONSTANTS
  pulse_mono = pulse_mono
  other = other
  Text <- Texts
  AsColour <- Colours
  Printed <- Prints
  Palette <- Palettes
  Name = {pulse_mono, other}
  Version = {"pulse", "written"}
  Schemas <- Declared
  Bundle <- Examples
  PulseMono = pulse_mono
  Patches <- Drags
  MaxFaults = 0
INVARIANT DragsStayHome
