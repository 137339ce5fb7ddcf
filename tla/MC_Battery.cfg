\* Readings that overlap at boot, and every moment of an interrupt of the charger.
CONSTANTS
    Hwid = hwid
    Shell = shell
    ble = ble
    Clients = {hwid, shell, ble}
    MaxLevel = 2
    Chargers = {"charging", "no_battery"}
    MaxChanges = 2
SPECIFICATION Spec
INVARIANTS AloneOnAdc ShipsDischarged ChargerReported
CHECK_DEADLOCK FALSE
