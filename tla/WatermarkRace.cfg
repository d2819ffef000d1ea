SPECIFICATION WatermarkSpec
CONSTANTS
    Reporters = {t1, t2}
    Subscribers = {a}
    Offsets = {0, 1, 2}
    ReportGenerations = {1, 2}
    NoReporter = NoReporter
    SerialCallers = FALSE
PROPERTY WatermarkNeverRegresses
