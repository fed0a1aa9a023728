SPECIFICATION Spec
CONSTANTS
    desk = desk  phone = phone  o1 = o1  o2 = o2
    Browsers = {desk, phone}  Records = {o1, o2}
    Capacity = 2  MaxLost = 0
INVARIANT RecordKept
CHECK_DEADLOCK FALSE
