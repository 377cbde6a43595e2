--------------------------- MODULE MCIncidentAlerts ---------------------------
\* Constants of IncidentAlerts that a configuration cannot write.
EXTENDS IncidentAlerts

\* Every employee serves in every section of the day.
SharedCrew == [s \in Sections |-> Employees]
===============================================================================
