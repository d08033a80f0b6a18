------------------------------ MODULE MCGainer -------------------------------
EXTENDS Gainer
MCSubcommands ==
  {"search", "hwnd", "reboot", "led", "end", "digitalOutput", "analogOutput", "analogOutputSingle",
   "servoOutput", "disconnect", "config", "peek", "begin", "scan"}
MCScanning == {"reboot", "config", "scan"}
MCConfigs == {1, 7}
MCMatrix == {7}
MCPatterns == {0, 15}
=============================================================================
