\* An upload deleted while a half of it is on its way.
SPECIFICATION Spec
CONSTANTS
    u1 = u1
    u2 = u2
    phone = phone
    office = office
    NoURL = NoURL
    Uploads = {u1}
    Devices = {phone, office}
    Uploader <- OneUploader
    Admins = {office}
    MaxFailures = 0
INVARIANTS
    DeletedStaysDeleted
