----------------------------- MODULE MCSensorApi -----------------------------
EXTENDS SensorApi
MCSensors == 1 .. 2
MCReports == {"none", "dark"}
=============================================================================
